---- MODULE Spec2Model ----
(***************************************************************************)
(* Limdy pooled memory allocator: the per-pool block list, the slab        *)
(* front-end, the red-black pool index and the allocator facade, modelled  *)
(* from src/src/utils/memory_pool.c, src/include/utils/memory_pool.h and   *)
(* src/include/utils/rbtree/rbtree.c.                                      *)
(*                                                                         *)
(* Pointers are natural numbers (byte addresses), NULL is 0.  Pool and     *)
(* slab memory is a function from word addresses to the values stored     *)
(* there (a word never written has no value); index nodes are records     *)
(* kept by address.  size_t values are kept as integers: every value of   *)
(* the model is far below 2^31 in magnitude, and a wrapped value 2^64 - k *)
(* of the program is the integer -k of the model, so equalities between   *)
(* size_t values are the same in both.                                    *)
(***************************************************************************)
EXTENDS Integers, Sequences, FiniteSets, TLC

NULL == 0

\* ------------------------------------------------------------------------
\* Program constants
\* ------------------------------------------------------------------------
LIMDY_MEMORY_ALIGNMENT == 16
LIMDY_MAX_POOLS == 8
LIMDY_SLAB_SIZES == 8
LIMDY_SLAB_MIN_SIZE == 16
LIMDY_SLAB_MAX_SIZE == 128
\* sizeof(struct MemoryBlock) on an LP64 build: uint32_t magic (4, padded to
\* 8), size_t size, size_t in_use, two pointers; data[] adds nothing.
HEADER_SIZE == 40
MIN_BLOCK_SIZE == HEADER_SIZE
\* offsets of the fields of struct MemoryBlock (each field starts a word)
OFF_MAGIC == 0
OFF_SIZE == 8
OFF_IN_USE == 16
OFF_NEXT == 24
OFF_PREV == 32
\* ALIGN_SIZE(size, align)
ALIGN_SIZE(size, align) == ((size + align - 1) \div align) * align
\* sizeof(LimdyRBNode) on LP64: pool, color (padded), parent, left, right
RBNODE_SIZE == 40
\* 0xDEADBEEF, written as the 32-bit two's complement value
MEMORY_BLOCK_MAGIC == -559038737

RED == "RED"
BLACK == "BLACK"

\* ------------------------------------------------------------------------
\* Bounds of the model
\* ------------------------------------------------------------------------
\* pool structs available to the index-only specification
MaxRBPools == 4
\* total_size values of those pools
MaxRBSize == 2
\* the configuration handed to limdy_memory_pool_init
CfgSmallPoolSize == 272
CfgLargePoolSize == 512
CfgMaxPools == 2
CfgSlabObjects == 2
\* allocations a client holds at a time
MaxLive == 2
\* calls a client makes
MaxCalls == 4
\* slabs the system allocator can provide before posix_memalign fails
MaxSlabChunks == 2

VARIABLES
    mem,             \* memory words written so far: address -> value
    pools,           \* live LimdyMemoryPool structs by address
    small_pools,     \* LimdyMemoryPool *small_pools[LIMDY_MAX_POOLS]
    num_small_pools,
    large_pool,
    global_config,
    tree,            \* LimdyRBTree pool_rbtree with its node memory
    slab_allocator,  \* LimdySlabAllocator: slabs, slab_sizes, free_objects
    heap,            \* what the system allocator has handed out
    status,          \* "run", or how the process ended / got stuck
    held,            \* mutexes the calling thread holds
    log,             \* error codes logged by the last call
    live,            \* allocations the client holds
    last,            \* the last call of the client and its outcome
    calls,           \* calls the client has made
    audit,           \* what the last call did: locks taken, index use, copy
    indexed,         \* SpecRB: pools inserted and not yet removed
    rbres            \* SpecRB: outcome of the last index operation

allocVars == <<mem, small_pools, num_small_pools, large_pool, global_config,
               slab_allocator, heap, status, held, log, live, last, calls,
               audit>>
vars == <<tree, pools, indexed, rbres, allocVars>>

\* ------------------------------------------------------------------------
\* Red-black tree (rbtree.c)
\* ------------------------------------------------------------------------
\* A tree value T carries the node memory T.n (address -> LimdyRBNode), the
\* LimdyRBTree fields root and size, and crash, set when the code
\* dereferences a NULL node pointer (the process dies with SIGSEGV).
EmptyNodes == [a \in {} |-> NULL]

Upd(T, id, f, v) == [T EXCEPT !.n[id][f] = v]
Crash(T) == [T EXCEPT !.crash = TRUE]
Col(T, id) == T.n[id].color
Par(T, id) == T.n[id].parent
Lft(T, id) == T.n[id].left
Rgt(T, id) == T.n[id].right
\* "x == NULL || x->color == BLACK"
IsBlack(T, id) == id = NULL \/ Col(T, id) = BLACK

\* One store "a->f = v" (a = TREE_ROOT for tree->root); a store through a
\* NULL node pointer crashes.
TREE_ROOT == -1
W(a, f, v) == [a |-> a, f |-> f, v |-> v]
Write(T, w) ==
    IF T.crash THEN T
    ELSE IF w.a = TREE_ROOT THEN [T EXCEPT !.root = w.v]
    ELSE IF w.a = NULL THEN Crash(T)
    ELSE Upd(T, w.a, w.f, w.v)

\* A sequence of stores, in program order
RECURSIVE Store(_, _)
Store(T, ws) == IF ws = <<>> THEN T ELSE Store(Write(T, Head(ws)), Tail(ws))

\* "if (c) { stores }"
When(c, ws) == IF c THEN ws ELSE <<>>

\* The store that replaces u by v in u's parent (or in tree->root)
LinkParent(T, u, v) ==
    IF Par(T, u) = NULL THEN W(TREE_ROOT, "root", v)
    ELSE IF u = Lft(T, Par(T, u)) THEN W(Par(T, u), "left", v)
    ELSE W(Par(T, u), "right", v)

left_rotate(T, x) ==
    IF T.crash THEN T
    ELSE IF x = NULL \/ Rgt(T, x) = NULL THEN Crash(T)
    ELSE LET y == Rgt(T, x)
         IN  Store(T, <<W(x, "right", Lft(T, y))>>
                      \o When(Lft(T, y) # NULL, <<W(Lft(T, y), "parent", x)>>)
                      \o <<W(y, "parent", Par(T, x)),
                           LinkParent(T, x, y),
                           W(y, "left", x),
                           W(x, "parent", y)>>)

right_rotate(T, y) ==
    IF T.crash THEN T
    ELSE IF y = NULL \/ Lft(T, y) = NULL THEN Crash(T)
    ELSE LET x == Lft(T, y)
         IN  Store(T, <<W(y, "left", Rgt(T, x))>>
                      \o When(Rgt(T, x) # NULL, <<W(Rgt(T, x), "parent", y)>>)
                      \o <<W(x, "parent", Par(T, y)),
                           LinkParent(T, y, x),
                           W(x, "right", y),
                           W(y, "parent", x)>>)

Other(dir) == IF dir = "left" THEN "right" ELSE "left"
\* left_rotate for dir = "left", right_rotate for dir = "right"
Rotate(T, x, dir) == IF dir = "left" THEN left_rotate(T, x) ELSE right_rotate(T, x)

\* insert_fixup, the branch without a red uncle, after the optional first
\* rotation: recolour parent and grandparent of node, rotate the
\* grandparent.  dir = "left" is the branch "parent is a left child".
insert_fixup_rotate(T, node, dir) ==
    IF T.crash THEN T
    ELSE IF Par(T, node) = NULL THEN Crash(T)
    ELSE IF Par(T, Par(T, node)) = NULL THEN Crash(T)
    ELSE Rotate(Store(T, <<W(Par(T, node), "color", BLACK),
                           W(Par(T, Par(T, node)), "color", RED)>>),
                Par(T, Par(T, node)), Other(dir))

\* The while loop of insert_fixup; the caller blackens the root afterwards.
\* dir = "left" is the branch "node->parent == node->parent->parent->left"
\* (the uncle is the grandparent's right child), dir = "right" its mirror.
RECURSIVE insert_fixup_loop(_, _)
insert_fixup_loop(T, node) ==
    IF T.crash THEN T
    ELSE IF node = T.root THEN T
    ELSE IF Par(T, node) = NULL THEN Crash(T)
    ELSE IF Col(T, Par(T, node)) # RED THEN T
    ELSE IF Par(T, Par(T, node)) = NULL THEN Crash(T)
    ELSE LET p     == Par(T, node)
             g     == Par(T, Par(T, node))
             dir   == IF Par(T, node) = Lft(T, Par(T, Par(T, node)))
                      THEN "left" ELSE "right"
             uncle == T.n[g][Other(dir)]
         IN  IF uncle # NULL /\ Col(T, uncle) = RED
             THEN insert_fixup_loop(Store(T, <<W(p, "color", BLACK),
                                               W(uncle, "color", BLACK),
                                               W(g, "color", RED)>>), g)
             ELSE IF node = T.n[p][Other(dir)]
             THEN insert_fixup_loop(
                      insert_fixup_rotate(Rotate(T, p, dir), p, dir), p)
             ELSE insert_fixup_loop(insert_fixup_rotate(T, node, dir), node)

\* "tree->root->color = LIMDY_RB_BLACK" after the loop
BlackenRoot(T) ==
    IF T.crash THEN T
    ELSE IF T.root = NULL THEN Crash(T)
    ELSE Upd(T, T.root, "color", BLACK)

insert_fixup(T, node) == BlackenRoot(insert_fixup_loop(T, node))

transplant(T, u, v) ==
    Store(T, <<LinkParent(T, u, v)>>
             \o When(v # NULL, <<W(v, "parent", Par(T, u))>>))

RECURSIVE tree_minimum(_, _)
tree_minimum(T, node) ==
    IF Lft(T, node) # NULL THEN tree_minimum(T, Lft(T, node)) ELSE node

\* delete_fixup, the last case of a branch: w takes the parent's colour,
\* parent and w's far child become black, the parent is rotated; the loop
\* ends with x = tree->root.
delete_fixup_last(T, parent, dir) ==
    IF T.crash THEN T
    ELSE IF T.n[parent][Other(dir)] = NULL THEN Crash(T)
    ELSE LET w == T.n[parent][Other(dir)]
         IN  Rotate(Store(T, <<W(w, "color", Col(T, parent)),
                               W(parent, "color", BLACK)>>
                              \o When(T.n[w][Other(dir)] # NULL,
                                      <<W(T.n[w][Other(dir)], "color", BLACK)>>)),
                    parent, dir)

\* delete_fixup, "if w's far child is black": blacken w's near child, redden
\* w and rotate w away from x.
delete_fixup_inner(T, w, dir) ==
    Rotate(Store(T, When(T.n[w][dir] # NULL, <<W(T.n[w][dir], "color", BLACK)>>)
                    \o <<W(w, "color", RED)>>),
           w, Other(dir))

\* The while loop of delete_fixup.  dir = "left" is the branch
\* "x == parent->left" (w is parent->right), dir = "right" its mirror image.
\* delete_fixup_loop is the loop head with the first sibling case,
\* delete_fixup_cases the rest of the body with w re-read from the parent.
\* The result is <<tree, x>> as they are when the loop is left.
RECURSIVE delete_fixup_loop(_, _, _)
RECURSIVE delete_fixup_cases(_, _, _, _)
delete_fixup_loop(T, x, parent) ==
    IF T.crash THEN <<T, x>>
    ELSE IF ~(x # T.root /\ IsBlack(T, x)) THEN <<T, x>>
    ELSE IF parent = NULL THEN <<Crash(T), x>>
    ELSE LET dir == IF x = Lft(T, parent) THEN "left" ELSE "right"
             w   == T.n[parent][Other(dir)]
         IN  IF w = NULL THEN <<Crash(T), x>>
             ELSE IF Col(T, w) = RED
             THEN delete_fixup_cases(
                      Rotate(Store(T, <<W(w, "color", BLACK),
                                        W(parent, "color", RED)>>), parent, dir),
                      x, parent, dir)
             ELSE delete_fixup_cases(T, x, parent, dir)

delete_fixup_cases(T, x, parent, dir) ==
    IF T.crash THEN <<T, x>>
    ELSE IF T.n[parent][Other(dir)] = NULL THEN <<Crash(T), x>>
    ELSE LET w == T.n[parent][Other(dir)]
         IN  IF IsBlack(T, T.n[w][dir]) /\ IsBlack(T, T.n[w][Other(dir)])
             THEN delete_fixup_loop(Upd(T, w, "color", RED), parent, Par(T, parent))
             ELSE IF IsBlack(T, T.n[w][Other(dir)])
             THEN <<delete_fixup_last(delete_fixup_inner(T, w, dir), parent, dir),
                    TREE_ROOT>>
             ELSE <<delete_fixup_last(T, parent, dir), TREE_ROOT>>

\* "if (x != NULL) x->color = BLACK" after the loop; x = TREE_ROOT stands
\* for the tree->root the loop assigned to x before its break.
delete_fixup_end(r) ==
    IF r[1].crash THEN r[1]
    ELSE IF r[2] = TREE_ROOT THEN
        (IF r[1].root # NULL THEN Upd(r[1], r[1].root, "color", BLACK) ELSE r[1])
    ELSE IF r[2] # NULL THEN Upd(r[1], r[2], "color", BLACK)
    ELSE r[1]

delete_fixup(T, x, parent) == delete_fixup_end(delete_fixup_loop(T, x, parent))

\* create_node: the fields written into freshly allocated node memory
create_node(pool) ==
    [pool |-> pool, color |-> RED, parent |-> NULL, left |-> NULL, right |-> NULL]

\* The descent of limdy_rbtree_insert: the last node visited (y), NULL in
\* an empty tree.  sz[p] is p->total_size.
RECURSIVE insert_descend(_, _, _, _, _)
insert_descend(T, sz, pool, x, y) ==
    IF x = NULL THEN y
    ELSE insert_descend(T, sz, pool,
                        IF sz[pool] < sz[T.n[x].pool] THEN Lft(T, x) ELSE Rgt(T, x),
                        x)

\* limdy_rbtree_insert after create_node returned the non-NULL address node
limdy_rbtree_insert(T, sz, node, pool) ==
    LET T0 == [T EXCEPT !.n = [a \in DOMAIN T.n \cup {node} |->
                                  IF a = node THEN create_node(pool) ELSE T.n[a]]]
        y  == insert_descend(T0, sz, pool, T0.root, NULL)
        T1 == Upd(T0, node, "parent", y)
        T2 == IF y = NULL THEN [T1 EXCEPT !.root = node]
              ELSE IF sz[pool] < sz[T1.n[y].pool] THEN Upd(T1, y, "left", node)
              ELSE Upd(T1, y, "right", node)
        T3 == insert_fixup(T2, node)
    IN  IF T3.crash THEN T3 ELSE [T3 EXCEPT !.size = @ + 1]

\* The search of limdy_rbtree_remove: the first node on the search path
\* whose pool has the total_size of the pool to remove, NULL if none.
RECURSIVE remove_search(_, _, _, _)
remove_search(T, sz, pool, z) ==
    IF z = NULL THEN NULL
    ELSE IF sz[pool] = sz[T.n[z].pool] THEN z
    ELSE remove_search(T, sz, pool,
                       IF sz[pool] < sz[T.n[z].pool] THEN Lft(T, z) ELSE Rgt(T, z))

\* delete_fixup as limdy_rbtree_remove calls it: only if the colour of the
\* node that left its place was black, with "(x == NULL) ? y->parent :
\* x->parent" read after the relinking.
remove_fixup(T, yc, x, y) ==
    IF T.crash \/ yc # BLACK THEN T
    ELSE delete_fixup(T, x, IF x = NULL THEN Par(T, y) ELSE Par(T, x))

\* z has two children, after y and x were chosen and y was detached from
\* its place: y takes z's place, left subtree and colour.
remove_replace(T, z, y) ==
    Store(T, <<LinkParent(T, z, y),
               W(y, "parent", Par(T, z)),
               W(y, "left", Lft(T, z)),
               W(Lft(T, z), "parent", y),
               W(y, "color", Col(T, z))>>)

\* limdy_rbtree_remove from "LimdyRBNode *y = z" up to, not including,
\* limdy_memory_pool_free(z): unlink z and rebalance.
remove_unlink(T, z) ==
    IF Lft(T, z) = NULL
    THEN remove_fixup(transplant(T, z, Rgt(T, z)), Col(T, z), Rgt(T, z), z)
    ELSE IF Rgt(T, z) = NULL
    THEN remove_fixup(transplant(T, z, Lft(T, z)), Col(T, z), Lft(T, z), z)
    ELSE LET y == tree_minimum(T, Rgt(T, z))
             x == Rgt(T, y)
         IN  IF Par(T, y) = z
             THEN remove_fixup(
                      remove_replace(Store(T, When(x # NULL, <<W(x, "parent", y)>>)),
                                     z, y),
                      Col(T, y), x, y)
             ELSE remove_fixup(
                      remove_replace(
                          Store(T, <<LinkParent(T, y, x)>>
                                   \o When(x # NULL, <<W(x, "parent", Par(T, y))>>)
                                   \o <<W(y, "right", Rgt(T, z)),
                                        W(Rgt(T, z), "parent", y)>>),
                          z, y),
                      Col(T, y), x, y)

\* The node memory of z is given back (limdy_memory_pool_free(z)) and
\* tree->size is decremented; the freed node is no longer part of T.n.
remove_finish(T, z) ==
    IF T.crash THEN T
    ELSE [T EXCEPT !.n = [a \in DOMAIN T.n \ {z} |-> T.n[a]], !.size = @ - 1]

\* best_fit_walk with the comparison ">" in place of ">=" (a faulty variant).
RECURSIVE best_fit_walk_strict(_, _, _, _, _)
best_fit_walk_strict(T, sz, size, current, best_fit) ==
    IF current = NULL THEN best_fit
    ELSE IF sz[T.n[current].pool] > size
    THEN best_fit_walk_strict(T, sz, size, Lft(T, current), T.n[current].pool)
    ELSE best_fit_walk_strict(T, sz, size, Rgt(T, current), best_fit)

RECURSIVE best_fit_walk(_, _, _, _, _)
best_fit_walk(T, sz, size, current, best_fit) ==
    IF current = NULL THEN best_fit
    ELSE IF sz[T.n[current].pool] >= size
    THEN best_fit_walk(T, sz, size, Lft(T, current), T.n[current].pool)
    ELSE best_fit_walk(T, sz, size, Rgt(T, current), best_fit)

limdy_rbtree_find_best_fit(T, sz, size) ==
    best_fit_walk(T, sz, size, T.root, NULL)


\* ------------------------------------------------------------------------
\* Red-black properties (limdy_rbtree_validate states them for debug builds)
\* ------------------------------------------------------------------------
RootBlack(T) == T.root = NULL \/ Col(T, T.root) = BLACK

NoRedRed(T) ==
    \A a \in DOMAIN T.n :
        Col(T, a) = RED =>
            /\ (Lft(T, a) = NULL \/ Col(T, Lft(T, a)) = BLACK)
            /\ (Rgt(T, a) = NULL \/ Col(T, Rgt(T, a)) = BLACK)

\* Number of black nodes on every path from id down to NIL, -1 if two
\* paths disagree.
RECURSIVE BlackHeight(_, _)
BlackHeight(T, id) ==
    IF id = NULL THEN 0
    ELSE LET l == BlackHeight(T, Lft(T, id))
             r == BlackHeight(T, Rgt(T, id))
         IN  IF l = -1 \/ r = -1 \/ l # r THEN -1
             ELSE l + (IF Col(T, id) = BLACK THEN 1 ELSE 0)

\* Nodes reachable from id through left and right links
RECURSIVE Subtree(_, _)
Subtree(T, id) ==
    IF id = NULL THEN {}
    ELSE {id} \cup Subtree(T, Lft(T, id)) \cup Subtree(T, Rgt(T, id))

RBProperties(T) ==
    /\ RootBlack(T)
    /\ NoRedRed(T)
    /\ BlackHeight(T, T.root) # -1

\* ------------------------------------------------------------------------
\* The allocator (memory_pool.c).  Its operations are operators on a record
\* A holding the statics of memory_pool.h:119-124 and memory_pool.c:508, the
\* memory words written so far, the live pool structs, what the system
\* allocator handed out, the mutexes the caller holds, the errors logged and
\* the value returned (ret).  A.status is "run" while the call proceeds:
\*   "exit"   error_fatal called exit(EXIT_FAILURE)
\*   "abort"  an assert failed
\*   "relock" pthread_mutex_lock on a default mutex the caller already holds
\*   "wild"   an access outside live memory, or through a garbage pointer
\*   "hang"   a list walk that does not end
\* Once A.status is not "run" every later step of the call leaves A alone.
\* ------------------------------------------------------------------------
GLOBAL_MUTEX == 0 - 1
SLAB_MUTEX == 0 - 2
SlabIdx == 0 .. LIMDY_SLAB_SIZES - 1
PoolIdx == 0 .. LIMDY_MAX_POOLS - 1

\* Addresses.  Pool structs are the multiples of 8 below HeapBase; arenas
\* and slabs are carved upwards from HeapBase, which lies above every pool
\* size in use (an address never compares below a total_size).
HeapBase == ALIGN_SIZE(2 * CfgLargePoolSize, LIMDY_MEMORY_ALIGNMENT)
\* malloc(sizeof(LimdyMemoryPool)) fails after this many structs
MaxPoolStructs == CfgMaxPools + 2
\* the same for the configuration in force: the large pool, max_pools small
\* pools and one more
StructRoom(A) == A.global_config.max_pools + 2

Zeroed ==
    [mem |-> [a \in {} |-> 0],
     pools |-> [a \in {} |-> 0],
     small_pools |-> [i \in PoolIdx |-> NULL],
     num_small_pools |-> 0,
     large_pool |-> NULL,
     global_config |-> [small_pool_size |-> 0, large_pool_size |-> 0,
                        max_pools |-> 0, slab_objects_per_slab |-> 0],
     tree |-> [n |-> EmptyNodes, root |-> NULL, size |-> 0, crash |-> FALSE],
     slab |-> [slabs |-> [i \in SlabIdx |-> NULL],
               slab_sizes |-> [i \in SlabIdx |-> 0],
               free_objects |-> [i \in SlabIdx |-> 0]],
     heap |-> [chunks |-> {}, brk |-> HeapBase, structs |-> 0, slabs |-> 0],
     status |-> "run",
     held |-> {},
     log |-> {},
     ret |-> NULL,   \* pointer returned by the call
     err |-> "SUCCESS",  \* ErrorCode returned by the call
     newp |-> NULL,  \* *new_pool of create_pool
     pool |-> NULL,  \* the local variable pool of free / realloc
     block |-> NULL, \* the local variable block of the free path
     stats |-> [total_allocated |-> 0, total_used |-> 0],
     \* what the call did, for the record:
     acq |-> {},          \* the mutex acquisitions, each with the mutexes held
     in_alloc |-> FALSE,  \* the thread is inside limdy_memory_pool_alloc
     unguarded |-> FALSE, \* pool_rbtree was used without global_mutex held
     cap |-> 0,           \* payload bytes of the object last handed out
     copy |-> [done |-> FALSE, n |-> 0, cap |-> 0]] \* the memcpy of a realloc

Running(A) == A.status = "run"
Fault(A, s) == IF Running(A) THEN [A EXCEPT !.status = s] ELSE A
Return(A, v) == IF Running(A) THEN [A EXCEPT !.ret = v] ELSE A
\* LOG_ERROR(code, ...)
LOG_ERROR(A, code) == IF Running(A) THEN [A EXCEPT !.log = @ \cup {code}] ELSE A

\* MUTEX_LOCK / MUTEX_UNLOCK (limdy_utils.h:46-71); m is the address of the
\* pool struct for pool->mutex.  All mutexes have the default type.
MUTEX_LOCK(A, m) ==
    IF ~Running(A) THEN A
    ELSE IF m \in A.held THEN Fault(A, "relock")
    ELSE [A EXCEPT !.held = @ \cup {m},
                   !.acq = @ \cup {[held |-> A.held, lock |-> m,
                                    in_alloc |-> A.in_alloc]}]
MUTEX_UNLOCK(A, m) ==
    IF ~Running(A) THEN A ELSE [A EXCEPT !.held = @ \ {m}]

\* --- memory words -------------------------------------------------------
InChunk(A, a) ==
    \E c \in A.heap.chunks : c.base <= a /\ a + 8 <= c.base + c.size
Mapped(A, a) == a \in DOMAIN A.mem
\* one word written: <<address, value>>
MemWrite(A, w) ==
    IF ~Running(A) THEN A
    ELSE IF ~InChunk(A, w[1]) THEN Fault(A, "wild")
    ELSE [A EXCEPT !.mem = (w[1] :> w[2]) @@ @]
RECURSIVE MemStore(_, _)
MemStore(A, ws) ==
    IF ws = <<>> THEN A ELSE MemStore(MemWrite(A, Head(ws)), Tail(ws))

\* struct MemoryBlock fields of the header at address b
HeaderWords(b) == {b + OFF_MAGIC, b + OFF_SIZE, b + OFF_IN_USE, b + OFF_NEXT, b + OFF_PREV}
HdrOK(A, b) == \A a \in HeaderWords(b) : Mapped(A, a) /\ InChunk(A, a)
Fld(A, b, off) == A.mem[b + off]
Data(b) == b + HEADER_SIZE
BlockOf(ptr) == ptr - HEADER_SIZE
NewHeader(b, size, next, prev) ==
    <<<<b + OFF_MAGIC, MEMORY_BLOCK_MAGIC>>, <<b + OFF_SIZE, size>>,
      <<b + OFF_IN_USE, 0>>, <<b + OFF_NEXT, next>>, <<b + OFF_PREV, prev>>>>

\* error_fatal(LIMDY_MEMORY_POOL_ERROR_CORRUPTION, ...): log, then exit
error_fatal(A, code) == Fault(LOG_ERROR(A, code), "exit")

\* verify_block_magic; a header outside live memory is a wild read
verify_block_magic(A, block) ==
    IF ~Running(A) THEN A
    ELSE IF ~HdrOK(A, block) THEN Fault(A, "wild")
    ELSE IF Fld(A, block, OFF_MAGIC) # MEMORY_BLOCK_MAGIC
    THEN error_fatal(A, "CORRUPTION")
    ELSE A

\* --- the system allocator -------------------------------------------------
\* posix_memalign(&ptr, alignment, size): chunks are handed out upwards,
\* each preceded by the room the system allocator keeps for its own chunk
\* header; NULL when no memory is left.
HeapGap == LIMDY_MEMORY_ALIGNMENT
HeapEnd == HeapBase + CfgLargePoolSize + (CfgMaxPools + 1) * ALIGN_SIZE(CfgSmallPoolSize, LIMDY_MEMORY_ALIGNMENT)
            + MaxSlabChunks * (LIMDY_SLAB_MAX_SIZE * CfgSlabObjects + LIMDY_MEMORY_ALIGNMENT)
AllocBase(A) == A.heap.brk + HeapGap
CanAlloc(A, size) == AllocBase(A) + size <= HeapEnd
ALIGNED_ALLOC(A, size) ==
    [A EXCEPT !.heap.chunks = @ \cup {[base |-> AllocBase(A), size |-> size]},
              !.heap.brk = ALIGN_SIZE(AllocBase(A) + size, LIMDY_MEMORY_ALIGNMENT)]
\* ALIGNED_FREE(ptr): the chunk and the words in it are gone
ChunkAt(A, base) == {c \in A.heap.chunks : c.base = base}
InChunks(cs, a) == \E c \in cs : c.base <= a /\ a < c.base + c.size
ALIGNED_FREE(A, base) ==
    IF ~Running(A) THEN A
    ELSE IF ChunkAt(A, base) = {} THEN Fault(A, "wild")
    ELSE [A EXCEPT !.heap.chunks = @ \ ChunkAt(A, base),
                   !.mem = [a \in {x \in DOMAIN @ : ~InChunks(ChunkAt(A, base), x)} |-> @[a]]]

\* --- pools ------------------------------------------------------------------
PoolOK(A, pool) == pool \in DOMAIN A.pools
StructAddr(A) == 8 * (A.heap.structs + 1)
ReturnErr(A, code) == IF Running(A) THEN [A EXCEPT !.err = code] ELSE A

\* create_pool; pthread_mutex_init and pthread_rwlock_init succeed.  When
\* the arena cannot be had, *new_pool is left pointing at the freed struct.
create_pool(A, pool_size) ==
    IF ~Running(A) THEN A
    ELSE IF A.heap.structs >= StructRoom(A)
    THEN ReturnErr(LOG_ERROR([A EXCEPT !.newp = NULL], "INIT_FAILED"), "INIT_FAILED")
    ELSE IF ~CanAlloc(A, pool_size)
    THEN ReturnErr(LOG_ERROR([A EXCEPT !.newp = StructAddr(A)], "INIT_FAILED"),
                   "INIT_FAILED")
    ELSE MemStore([ALIGNED_ALLOC(A, pool_size) EXCEPT
                      !.pools = (StructAddr(A) :>
                                   [memory |-> AllocBase(A), free_list |-> AllocBase(A),
                                    total_size |-> pool_size, used_size |-> 0]) @@ @,
                      !.heap.structs = @ + 1,
                      !.newp = StructAddr(A),
                      !.err = "SUCCESS"],
                  NewHeader(AllocBase(A), pool_size - HEADER_SIZE, NULL, NULL))

\* A block list is never longer than this unless it is cyclic.
WalkFuel == HeapEnd \div HEADER_SIZE

\* The search loop of allocate_from_pool: the first block, from block on,
\* that is free and holds size bytes.
\* first_fit with the comparison ">" in place of ">=" (a faulty variant).
RECURSIVE first_fit_strict(_, _, _, _)
first_fit_strict(A, block, size, fuel) ==
    IF block = NULL THEN <<"none", NULL>>
    ELSE IF fuel = 0 THEN <<"hang", block>>
    ELSE IF ~HdrOK(A, block) THEN <<"wild", block>>
    ELSE IF Fld(A, block, OFF_MAGIC) # MEMORY_BLOCK_MAGIC THEN <<"corrupt", block>>
    ELSE IF Fld(A, block, OFF_IN_USE) = 0 /\ Fld(A, block, OFF_SIZE) > size
    THEN <<"found", block>>
    ELSE first_fit_strict(A, Fld(A, block, OFF_NEXT), size, fuel - 1)

RECURSIVE first_fit(_, _, _, _)
first_fit(A, block, size, fuel) ==
    IF block = NULL THEN <<"none", NULL>>
    ELSE IF fuel = 0 THEN <<"hang", block>>
    ELSE IF ~HdrOK(A, block) THEN <<"wild", block>>
    ELSE IF Fld(A, block, OFF_MAGIC) # MEMORY_BLOCK_MAGIC THEN <<"corrupt", block>>
    ELSE IF Fld(A, block, OFF_IN_USE) = 0 /\ Fld(A, block, OFF_SIZE) >= size
    THEN <<"found", block>>
    ELSE first_fit(A, Fld(A, block, OFF_NEXT), size, fuel - 1)

\* allocate_from_pool:227-231: mark the block found, account for it, return
alloc_mark(A, pool, block) ==
    IF ~Running(A) THEN A
    ELSE Return(MUTEX_UNLOCK(
                    [MemStore(A, <<<<block + OFF_IN_USE, 1>>>>) EXCEPT
                        !.pools[pool].used_size = @ + Fld(A, block, OFF_SIZE) + HEADER_SIZE,
                        !.cap = Fld(A, block, OFF_SIZE)],
                    pool),
                Data(block))

\* allocate_from_pool:211-225: split off the remainder as a new free block
alloc_split(A, block, size) ==
    MemStore(A, NewHeader(Data(block) + size,
                          Fld(A, block, OFF_SIZE) - size - HEADER_SIZE,
                          Fld(A, block, OFF_NEXT), block)
                \o When(Fld(A, block, OFF_NEXT) # NULL,
                        <<<<Fld(A, block, OFF_NEXT) + OFF_PREV, Data(block) + size>>>>)
                \o <<<<block + OFF_NEXT, Data(block) + size>>,
                     <<block + OFF_SIZE, size>>>>)

alloc_take(A, pool, r, size) ==
    IF r[1] = "found"
    THEN IF Fld(A, r[2], OFF_SIZE) >= size + MIN_BLOCK_SIZE
         THEN alloc_mark(alloc_split(A, r[2], size), pool, r[2])
         ELSE alloc_mark(A, pool, r[2])
    ELSE IF r[1] = "none"
    THEN Return(LOG_ERROR(MUTEX_UNLOCK(A, pool), "ALLOC_FAILED"), NULL)
    ELSE IF r[1] = "corrupt" THEN error_fatal(A, "CORRUPTION")
    ELSE Fault(A, r[1])

alloc_locked(A, pool, size) ==
    IF ~Running(A) THEN A
    ELSE alloc_take(A, pool, first_fit(A, A.pools[pool].free_list, size, WalkFuel), size)

allocate_from_pool(A, pool, size) ==
    IF ~Running(A) THEN A
    ELSE IF ~PoolOK(A, pool) THEN Fault(A, "wild")
    ELSE alloc_locked(MUTEX_LOCK(A, pool), pool, size)

\* limdy_memory_pool_contains, for a pool struct that is live
limdy_memory_pool_contains(A, pool, ptr) ==
    /\ pool # NULL
    /\ ptr # NULL
    /\ ptr >= A.pools[pool].memory
    /\ ptr < A.pools[pool].memory + A.pools[pool].total_size

\* limdy_memory_pool_alloc_from
limdy_memory_pool_alloc_from(A, pool, size) ==
    IF pool = NULL THEN Return(LOG_ERROR(A, "INVALID_POOL"), NULL)
    ELSE allocate_from_pool(A, pool, ALIGN_SIZE(size, LIMDY_MEMORY_ALIGNMENT))

\* The free path under pool->mutex, the same statements in
\* limdy_memory_pool_free:331-335 and limdy_memory_pool_free_to:860-864.
free_release(A, pool, block) ==
    IF ~Running(A) THEN A
    ELSE IF ~HdrOK(A, block) THEN Fault(A, "wild")
    ELSE IF Fld(A, block, OFF_MAGIC) # MEMORY_BLOCK_MAGIC
    THEN error_fatal(A, "CORRUPTION")
    ELSE IF Fld(A, block, OFF_IN_USE) = 0 THEN Fault(A, "abort")
    ELSE [MemStore(A, <<<<block + OFF_IN_USE, 0>>>>) EXCEPT
             !.pools[pool].used_size = @ - (Fld(A, block, OFF_SIZE) + HEADER_SIZE),
             !.block = block]

\* free_merge_prev without the merge: the freed block is never merged into
\* a free predecessor (a faulty variant).
free_merge_prev_never(A) == A

\* :866-876 (and :337-347): coalesce with the previous block if it is free
free_merge_prev(A) ==
    IF ~Running(A) THEN A
    ELSE IF Fld(A, A.block, OFF_PREV) = NULL THEN A
    ELSE IF ~HdrOK(A, Fld(A, A.block, OFF_PREV)) THEN Fault(A, "wild")
    ELSE IF Fld(A, Fld(A, A.block, OFF_PREV), OFF_IN_USE) # 0 THEN A
    ELSE LET block == A.block
             prev == Fld(A, block, OFF_PREV)
             next == Fld(A, block, OFF_NEXT)
         IN  [MemStore(A, <<<<prev + OFF_SIZE,
                              Fld(A, prev, OFF_SIZE) + Fld(A, block, OFF_SIZE) + HEADER_SIZE>>,
                            <<prev + OFF_NEXT, next>>>>
                          \o When(next # NULL, <<<<next + OFF_PREV, prev>>>>))
                 EXCEPT !.block = prev]

\* :878-887 (and :349-360): coalesce with the next block if it is free
free_merge_next(A) ==
    IF ~Running(A) THEN A
    ELSE IF Fld(A, A.block, OFF_NEXT) = NULL THEN A
    ELSE IF ~HdrOK(A, Fld(A, A.block, OFF_NEXT)) THEN Fault(A, "wild")
    ELSE IF Fld(A, Fld(A, A.block, OFF_NEXT), OFF_IN_USE) # 0 THEN A
    ELSE LET block == A.block
             next == Fld(A, block, OFF_NEXT)
             nn == Fld(A, next, OFF_NEXT)
         IN  MemStore(A, <<<<block + OFF_SIZE,
                             Fld(A, block, OFF_SIZE) + Fld(A, next, OFF_SIZE) + HEADER_SIZE>>,
                           <<block + OFF_NEXT, nn>>>>
                         \o When(nn # NULL, <<<<nn + OFF_PREV, block>>>>))

free_block(A, pool, ptr) ==
    MUTEX_UNLOCK(free_merge_next(free_merge_prev(
        free_release(MUTEX_LOCK(A, pool), pool, BlockOf(ptr)))), pool)

\* limdy_memory_pool_free_to
limdy_memory_pool_free_to(A, pool, ptr) ==
    IF pool = NULL \/ ptr = NULL THEN A
    ELSE IF ~PoolOK(A, pool) THEN Fault(A, "wild")
    ELSE IF ~limdy_memory_pool_contains(A, pool, ptr)
    THEN LOG_ERROR(A, "INVALID_FREE")
    ELSE free_block(A, pool, ptr)

\* --- the slab allocator -------------------------------------------------------
\* init_slab_allocator
init_slab_allocator(A) ==
    IF ~Running(A) THEN A
    ELSE [A EXCEPT !.slab = [slabs |-> [i \in SlabIdx |-> NULL],
                             slab_sizes |-> [i \in SlabIdx |-> LIMDY_SLAB_MIN_SIZE * 2 ^ i],
                             free_objects |-> [i \in SlabIdx |-> 0]]]

\* The index loop of slab_alloc and slab_free: the first class whose object
\* size is at least size, LIMDY_SLAB_SIZES if there is none.
RECURSIVE slab_index(_, _, _)
slab_index(A, size, i) ==
    IF i < LIMDY_SLAB_SIZES /\ A.slab.slab_sizes[i] < size
    THEN slab_index(A, size, i + 1)
    ELSE i

\* the free list threaded through a new slab (slab_alloc:562-567)
SlabLinks(A, new_slab, idx) ==
    [i \in 1 .. A.global_config.slab_objects_per_slab |->
        <<new_slab + (i - 1) * A.slab.slab_sizes[idx],
          IF i = A.global_config.slab_objects_per_slab
          THEN A.slab.slabs[idx]
          ELSE new_slab + i * A.slab.slab_sizes[idx]>>]

\* slab_alloc:572-577: pop the head of the class's free list
slab_pop(A, idx) ==
    IF ~Running(A) THEN A
    ELSE IF ~(Mapped(A, A.slab.slabs[idx]) /\ InChunk(A, A.slab.slabs[idx]))
    THEN Fault(A, "wild")
    ELSE Return(MUTEX_UNLOCK(
                    [A EXCEPT !.slab.slabs[idx] = A.mem[A.slab.slabs[idx]],
                              !.slab.free_objects[idx] = @ - 1,
                              !.cap = A.slab.slab_sizes[idx]],
                    SLAB_MUTEX),
                A.slab.slabs[idx])

\* slab_alloc:550-570: a class without free objects gets a new slab
slab_refill(A, idx) ==
    IF ~Running(A) THEN A
    ELSE IF A.slab.free_objects[idx] # 0 THEN slab_pop(A, idx)
    ELSE IF A.heap.slabs >= MaxSlabChunks
            \/ ~CanAlloc(A, A.slab.slab_sizes[idx] * A.global_config.slab_objects_per_slab)
    THEN Return(MUTEX_UNLOCK(A, SLAB_MUTEX), NULL)
    ELSE slab_pop(
             MemStore([ALIGNED_ALLOC(A, A.slab.slab_sizes[idx]
                                         * A.global_config.slab_objects_per_slab)
                          EXCEPT !.slab.slabs[idx] = AllocBase(A),
                                 !.slab.free_objects[idx] =
                                     A.global_config.slab_objects_per_slab,
                                 !.heap.slabs = @ + 1],
                      SlabLinks(A, AllocBase(A), idx)),
             idx)

slab_alloc(A, size) ==
    IF ~Running(A) THEN A
    ELSE IF size > LIMDY_SLAB_MAX_SIZE THEN Return(A, NULL)
    ELSE IF slab_index(A, size, 0) = LIMDY_SLAB_SIZES THEN Return(A, NULL)
    ELSE slab_refill(MUTEX_LOCK(A, SLAB_MUTEX), slab_index(A, size, 0))

slab_push(A, ptr, idx) ==
    IF ~Running(A) THEN A
    ELSE MUTEX_UNLOCK(
             [MemStore(A, <<<<ptr, A.slab.slabs[idx]>>>>) EXCEPT
                 !.slab.slabs[idx] = ptr,
                 !.slab.free_objects[idx] = @ + 1],
             SLAB_MUTEX)

slab_free(A, ptr, size) ==
    IF ~Running(A) THEN A
    ELSE IF size > LIMDY_SLAB_MAX_SIZE THEN A
    ELSE IF slab_index(A, size, 0) = LIMDY_SLAB_SIZES THEN A
    ELSE slab_push(MUTEX_LOCK(A, SLAB_MUTEX), ptr, slab_index(A, size, 0))

\* --- the global interface ---------------------------------------------------
PoolSizes(A) == [p \in DOMAIN A.pools |-> A.pools[p].total_size]

\* The nodes limdy_rbtree_find_best_fit reads lie in live memory and name
\* live pool structs (otherwise the walk reads freed memory).
RECURSIVE best_fit_safe(_, _, _)
best_fit_safe(A, size, current) ==
    \/ current = NULL
    \/ /\ InChunk(A, current)
       /\ PoolOK(A, A.tree.n[current].pool)
       /\ best_fit_safe(A, size,
              IF A.pools[A.tree.n[current].pool].total_size >= size
              THEN Lft(A.tree, current) ELSE Rgt(A.tree, current))

\* A use of the static pool_rbtree (a search, an insert or a remove), with
\* or without global_mutex held by the caller
pool_rbtree(A) ==
    IF ~Running(A) \/ GLOBAL_MUTEX \in A.held THEN A
    ELSE [A EXCEPT !.unguarded = TRUE]

\* limdy_memory_pool_alloc:263-273, after the slab allocator had its turn
alloc_fallback(A, size) ==
    IF ~Running(A) THEN A
    ELSE IF A.ret # NULL THEN A
    ELSE allocate_from_pool(A, A.large_pool, size)

alloc_best(A, size) ==
    IF ~Running(A) THEN A
    ELSE IF A.ret # NULL THEN A
    ELSE IF ~best_fit_safe(A, size, A.tree.root) THEN Fault(A, "wild")
    ELSE IF limdy_rbtree_find_best_fit(A.tree, PoolSizes(A), size) # NULL
    THEN alloc_fallback(
             allocate_from_pool(pool_rbtree(A),
                                limdy_rbtree_find_best_fit(A.tree, PoolSizes(A), size),
                                size),
             size)
    ELSE allocate_from_pool(pool_rbtree(A), A.large_pool, size)

\* alloc_aligned with the slab allocator tried only below
\* LIMDY_SLAB_MAX_SIZE (a faulty variant)
alloc_aligned_below_max(A, size) ==
    IF size < LIMDY_SLAB_MAX_SIZE
    THEN alloc_best(slab_alloc(A, size), size)
    ELSE alloc_best(A, size)

alloc_aligned(A, size) ==
    IF size <= LIMDY_SLAB_MAX_SIZE
    THEN alloc_best(slab_alloc(A, size), size)
    ELSE alloc_best(A, size)

alloc_enter(A) ==
    IF ~Running(A) THEN A ELSE [A EXCEPT !.ret = NULL, !.in_alloc = TRUE]
alloc_exit(A) ==
    IF ~Running(A) THEN A ELSE [A EXCEPT !.in_alloc = FALSE]

limdy_memory_pool_alloc(A, size) ==
    alloc_exit(alloc_aligned(alloc_enter(A), ALIGN_SIZE(size, LIMDY_MEMORY_ALIGNMENT)))

\* find_pool; the result is left in A.pool
find_pool(A, ptr) ==
    IF ~Running(A) THEN A
    ELSE IF ~best_fit_safe(A, ptr, A.tree.root) THEN Fault(A, "wild")
    ELSE LET pool == limdy_rbtree_find_best_fit(A.tree, PoolSizes(A), ptr)
         IN  IF pool # NULL /\ limdy_memory_pool_contains(A, pool, ptr)
             THEN [pool_rbtree(A) EXCEPT !.pool = pool]
             ELSE IF A.large_pool # NULL /\ ~PoolOK(A, A.large_pool)
             THEN Fault(A, "wild")
             ELSE IF limdy_memory_pool_contains(A, A.large_pool, ptr)
             THEN [pool_rbtree(A) EXCEPT !.pool = A.large_pool]
             ELSE [pool_rbtree(A) EXCEPT !.pool = NULL]

\* limdy_memory_pool_free:312-321: the slab classes whose range, counted
\* from the head of the class's free list, holds ptr
SlabClasses(A, ptr) ==
    {i \in SlabIdx :
        /\ A.slab.slabs[i] # NULL
        /\ ptr >= A.slab.slabs[i]
        /\ ptr < A.slab.slabs[i]
                   + A.slab.slab_sizes[i] * A.global_config.slab_objects_per_slab}
FirstOf(S) == CHOOSE i \in S : \A j \in S : i <= j

\* limdy_memory_pool_free:324-362
free_found(A, ptr) ==
    IF ~Running(A) THEN A
    ELSE IF A.pool = NULL THEN LOG_ERROR(A, "INVALID_FREE")
    ELSE free_block(A, A.pool, ptr)

\* free_classify without the unlock at :322: the slab mutex stays held while
\* the pool is searched and locked (a faulty variant).
free_classify_keeps_slab_mutex(A, ptr) ==
    IF ~Running(A) THEN A
    ELSE IF SlabClasses(A, ptr) # {}
    THEN MUTEX_UNLOCK(slab_free(A, ptr, A.slab.slab_sizes[FirstOf(SlabClasses(A, ptr))]),
                      SLAB_MUTEX)
    ELSE free_found(find_pool(A, ptr), ptr)

free_classify(A, ptr) ==
    IF ~Running(A) THEN A
    ELSE IF SlabClasses(A, ptr) # {}
    THEN MUTEX_UNLOCK(slab_free(A, ptr, A.slab.slab_sizes[FirstOf(SlabClasses(A, ptr))]),
                      SLAB_MUTEX)
    ELSE free_found(find_pool(MUTEX_UNLOCK(A, SLAB_MUTEX), ptr), ptr)

\* limdy_memory_pool_free without the test of ptr at :305-308 (a faulty
\* variant)
limdy_memory_pool_free_unchecked(A, ptr) ==
    free_classify(MUTEX_LOCK(A, SLAB_MUTEX), ptr)

limdy_memory_pool_free(A, ptr) ==
    IF ptr = NULL THEN A
    ELSE free_classify(MUTEX_LOCK(A, SLAB_MUTEX), ptr)

\* --- realloc ----------------------------------------------------------------
\* memcpy(dst, src, n), word by word; words never written stay unwritten
memcpy(A, dst, src, n) ==
    IF ~Running(A) THEN A
    ELSE IF \E k \in 0 .. ((n + 7) \div 8) - 1 :
                ~InChunk(A, dst + 8 * k) \/ ~InChunk(A, src + 8 * k)
    THEN Fault(A, "wild")
    ELSE [A EXCEPT !.mem =
            [a \in (DOMAIN A.mem \ {dst + 8 * k : k \in 0 .. ((n + 7) \div 8) - 1})
                   \cup {dst + 8 * k : k \in {j \in 0 .. ((n + 7) \div 8) - 1 :
                                                 Mapped(A, src + 8 * j)}}
               |-> IF a >= dst /\ a < dst + n THEN A.mem[a - dst + src] ELSE A.mem[a]]]

\* realloc_allocate_and_copy:376-385, after limdy_memory_pool_alloc returned
copy_and_free(A, ptr, new_ptr) ==
    IF ~Running(A) THEN A
    ELSE IF new_ptr = NULL THEN A
    ELSE IF ~HdrOK(A, BlockOf(ptr)) THEN Fault(A, "wild")
    ELSE Return(limdy_memory_pool_free(
                    memcpy([A EXCEPT !.copy = [done |-> TRUE,
                                                n |-> Fld(A, BlockOf(ptr), OFF_SIZE),
                                                cap |-> A.cap]],
                           new_ptr, ptr, Fld(A, BlockOf(ptr), OFF_SIZE)), ptr),
                new_ptr)

alloc_and_copy(A, ptr) == copy_and_free(A, ptr, A.ret)

realloc_allocate_and_copy(A, pool, ptr, new_size) ==
    alloc_and_copy(limdy_memory_pool_alloc(A, new_size), ptr)

\* :791-793 (and :457-459): the accounting reads block->size after the
\* block was resized
realloc_done(A, pool, block, new_size) ==
    IF ~Running(A) THEN A
    ELSE Return(MUTEX_UNLOCK(
                    [A EXCEPT !.pools[pool].used_size =
                                  @ + new_size - Fld(A, block, OFF_SIZE)],
                    pool),
                Data(block))

\* :774-780 (and :440-446): the link fields of new_block, read after the
\* first three fields of new_block were written
realloc_link(A, block, new_block) ==
    IF ~Running(A) THEN A
    ELSE IF ~HdrOK(A, Fld(A, block, OFF_NEXT)) THEN Fault(A, "wild")
    ELSE LET nn == Fld(A, Fld(A, block, OFF_NEXT), OFF_NEXT)
         IN  MemStore(A, <<<<new_block + OFF_NEXT, nn>>,
                           <<new_block + OFF_PREV, block>>>>
                         \o When(nn # NULL, <<<<nn + OFF_PREV, new_block>>>>)
                         \o <<<<block + OFF_NEXT, new_block>>>>)

\* :767-790 (and :433-456): grow block into its free successor
realloc_extend(A, pool, block, new_size, total_size) ==
    IF total_size - new_size >= MIN_BLOCK_SIZE
    THEN realloc_done(
             realloc_link(
                 MemStore(A, <<<<block + OFF_SIZE, new_size>>,
                               <<Data(block) + new_size + OFF_MAGIC, MEMORY_BLOCK_MAGIC>>,
                               <<Data(block) + new_size + OFF_SIZE,
                                 total_size - new_size - HEADER_SIZE>>,
                               <<Data(block) + new_size + OFF_IN_USE, 0>>>>),
                 block, Data(block) + new_size),
             pool, block, new_size)
    ELSE LET nn == Fld(A, Fld(A, block, OFF_NEXT), OFF_NEXT)
         IN  realloc_done(
                 MemStore(A, <<<<block + OFF_SIZE, new_size>>,
                               <<block + OFF_SIZE, total_size>>,
                               <<block + OFF_NEXT, nn>>>>
                             \o When(nn # NULL, <<<<nn + OFF_PREV, block>>>>)),
                 pool, block, new_size)

\* :760-800 (and :426-466): new_size is aligned already
realloc_sized(A, pool, ptr, new_size) ==
    LET block == BlockOf(ptr)
        next == Fld(A, block, OFF_NEXT)
    IN  IF new_size > Fld(A, block, OFF_SIZE) /\ next # NULL /\ ~HdrOK(A, next)
        THEN Fault(A, "wild")
        ELSE IF /\ new_size > Fld(A, block, OFF_SIZE)
                /\ next # NULL
                /\ Fld(A, next, OFF_IN_USE) = 0
                /\ Fld(A, block, OFF_SIZE) + HEADER_SIZE + Fld(A, next, OFF_SIZE) >= new_size
        THEN realloc_extend(A, pool, block, new_size,
                            Fld(A, block, OFF_SIZE) + HEADER_SIZE + Fld(A, next, OFF_SIZE))
        ELSE MUTEX_UNLOCK(realloc_allocate_and_copy(A, pool, ptr, new_size), pool)

realloc_locked(A, pool, ptr, new_size) ==
    IF ~Running(A) THEN A
    ELSE IF ~HdrOK(A, BlockOf(ptr)) THEN Fault(A, "wild")
    ELSE IF Fld(A, BlockOf(ptr), OFF_MAGIC) # MEMORY_BLOCK_MAGIC
    THEN error_fatal(A, "CORRUPTION")
    ELSE IF Fld(A, BlockOf(ptr), OFF_IN_USE) = 0
    THEN Return(LOG_ERROR(MUTEX_UNLOCK(A, pool), "INVALID_FREE"), NULL)
    ELSE realloc_sized(A, pool, ptr, ALIGN_SIZE(new_size, LIMDY_MEMORY_ALIGNMENT))

\* realloc_from_pool; limdy_memory_pool_realloc:415-466 is the same text
realloc_from_pool(A, pool, ptr, new_size) ==
    realloc_locked(MUTEX_LOCK(A, pool), pool, ptr, new_size)

realloc_found(A, ptr, new_size) ==
    IF ~Running(A) THEN A
    ELSE IF A.pool = NULL THEN Return(LOG_ERROR(A, "INVALID_FREE"), NULL)
    ELSE realloc_from_pool(A, A.pool, ptr, new_size)

limdy_memory_pool_realloc(A, ptr, new_size) ==
    IF ptr = NULL THEN limdy_memory_pool_alloc(A, new_size)
    ELSE IF new_size = 0 THEN Return(limdy_memory_pool_free(A, ptr), NULL)
    ELSE realloc_found(find_pool(A, ptr), ptr, new_size)

limdy_memory_pool_realloc_from(A, pool, ptr, new_size) ==
    IF pool = NULL THEN Return(LOG_ERROR(A, "INVALID_POOL"), NULL)
    ELSE IF ptr = NULL THEN limdy_memory_pool_alloc_from(A, pool, new_size)
    ELSE IF new_size = 0 THEN Return(limdy_memory_pool_free_to(A, pool, ptr), NULL)
    ELSE IF ~PoolOK(A, pool) THEN Fault(A, "wild")
    ELSE IF ~limdy_memory_pool_contains(A, pool, ptr)
    THEN Return(LOG_ERROR(A, "INVALID_FREE"), NULL)
    ELSE realloc_from_pool(A, pool, ptr, new_size)

\* --- defragment ---------------------------------------------------------------
\* defragment_loop merging a free block with its successor whether or not
\* the successor is free (a faulty variant).
RECURSIVE defragment_loop_any_next(_, _, _)
defragment_loop_any_next(A, current, fuel) ==
    IF ~Running(A) \/ current = NULL THEN A
    ELSE IF fuel = 0 THEN Fault(A, "hang")
    ELSE IF ~HdrOK(A, current) THEN Fault(A, "wild")
    ELSE IF Fld(A, current, OFF_NEXT) = NULL THEN A
    ELSE IF ~HdrOK(A, Fld(A, current, OFF_NEXT)) THEN Fault(A, "wild")
    ELSE LET next == Fld(A, current, OFF_NEXT)
             nn == Fld(A, next, OFF_NEXT)
         IN  IF Fld(A, current, OFF_IN_USE) = 0
             THEN defragment_loop_any_next(
                      MemStore(A, <<<<current + OFF_SIZE,
                                      Fld(A, current, OFF_SIZE) + Fld(A, next, OFF_SIZE)
                                          + HEADER_SIZE>>,
                                    <<current + OFF_NEXT, nn>>>>
                                  \o When(nn # NULL, <<<<nn + OFF_PREV, current>>>>)),
                      current, fuel - 1)
             ELSE defragment_loop_any_next(A, next, fuel - 1)

RECURSIVE defragment_loop(_, _, _)
defragment_loop(A, current, fuel) ==
    IF ~Running(A) \/ current = NULL THEN A
    ELSE IF fuel = 0 THEN Fault(A, "hang")
    ELSE IF ~HdrOK(A, current) THEN Fault(A, "wild")
    ELSE IF Fld(A, current, OFF_NEXT) = NULL THEN A
    ELSE IF ~HdrOK(A, Fld(A, current, OFF_NEXT)) THEN Fault(A, "wild")
    ELSE LET next == Fld(A, current, OFF_NEXT)
             nn == Fld(A, next, OFF_NEXT)
         IN  IF Fld(A, current, OFF_IN_USE) = 0 /\ Fld(A, next, OFF_IN_USE) = 0
             THEN defragment_loop(
                      MemStore(A, <<<<current + OFF_SIZE,
                                      Fld(A, current, OFF_SIZE) + Fld(A, next, OFF_SIZE)
                                          + HEADER_SIZE>>,
                                    <<current + OFF_NEXT, nn>>>>
                                  \o When(nn # NULL, <<<<nn + OFF_PREV, current>>>>)),
                      current, fuel - 1)
             ELSE defragment_loop(A, next, fuel - 1)

defragment_locked(A, pool) ==
    IF ~Running(A) THEN A
    ELSE ReturnErr(MUTEX_UNLOCK(defragment_loop(A, A.pools[pool].free_list, WalkFuel), pool),
                   "SUCCESS")

limdy_memory_pool_defragment(A, pool) ==
    IF pool = NULL THEN ReturnErr(LOG_ERROR(A, "INVALID_POOL"), "INVALID_POOL")
    ELSE IF ~PoolOK(A, pool) THEN Fault(A, "wild")
    ELSE defragment_locked(MUTEX_LOCK(A, pool), pool)

\* --- the pool index inside the allocator -----------------------------------
\* Every node lies in live memory and names a live pool struct; insert and
\* remove on a tree where this fails read freed memory.
TreeSafe(A) ==
    \A a \in DOMAIN A.tree.n : InChunk(A, a) /\ PoolOK(A, A.tree.n[a].pool)

\* free(ptr) of a pool struct
free_struct(A, pool) ==
    IF ~Running(A) THEN A
    ELSE [A EXCEPT !.pools = [q \in DOMAIN @ \ {pool} |-> @[q]]]

\* limdy_rbtree_insert:264-304 on pool_rbtree, after create_node called
\* limdy_memory_pool_alloc
rbtree_insert_node(A, pool) ==
    IF ~Running(A) THEN A
    ELSE IF A.ret = NULL
    THEN ReturnErr(LOG_ERROR(A, "MEMORY_ALLOCATION"), "MEMORY_ALLOCATION")
    ELSE IF ~TreeSafe(A) \/ ~PoolOK(A, pool) THEN Fault(A, "wild")
    ELSE IF limdy_rbtree_insert(A.tree, PoolSizes(A), A.ret, pool).crash
    THEN Fault(A, "wild")
    ELSE [pool_rbtree(A) EXCEPT
             !.tree = limdy_rbtree_insert(A.tree, PoolSizes(A), A.ret, pool),
             !.err = "SUCCESS"]

rbtree_insert(A, pool) ==
    rbtree_insert_node(limdy_memory_pool_alloc(A, RBNODE_SIZE), pool)

\* limdy_rbtree_remove:335-381, z found
rbtree_remove_free(A, z) ==
    IF ~Running(A) THEN A
    ELSE IF A.tree.crash THEN Fault([A EXCEPT !.tree.crash = FALSE], "wild")
    ELSE ReturnErr(limdy_memory_pool_free(A, z), "SUCCESS")

rbtree_remove_node(A, z) ==
    IF z = NULL
    THEN ReturnErr(LOG_ERROR(pool_rbtree(A), "INVALID_POOL"), "INVALID_POOL")
    ELSE rbtree_remove_free(
             [pool_rbtree(A) EXCEPT
                 !.tree = remove_finish(remove_unlink(A.tree, z), z)], z)

rbtree_remove(A, pool) ==
    IF ~Running(A) THEN A
    ELSE IF ~TreeSafe(A) \/ ~PoolOK(A, pool) THEN Fault(A, "wild")
    ELSE rbtree_remove_node(A, remove_search(A.tree, PoolSizes(A), pool, A.tree.root))

\* --- create, destroy, init, cleanup, stats -----------------------------------
\* limdy_memory_pool_create:660-675, after limdy_rbtree_insert
create_indexed(A) ==
    IF ~Running(A) THEN A
    ELSE IF A.err = "SUCCESS"
    THEN MUTEX_UNLOCK([A EXCEPT !.num_small_pools = @ + 1], GLOBAL_MUTEX)
    ELSE MUTEX_UNLOCK(
             [free_struct(ALIGNED_FREE(A, A.pools[A.newp].memory), A.newp)
                 EXCEPT !.newp = NULL],
             GLOBAL_MUTEX)

\* limdy_memory_pool_create:655-659, after create_pool
create_register(A) ==
    IF ~Running(A) THEN A
    ELSE IF A.err # "SUCCESS" THEN MUTEX_UNLOCK(A, GLOBAL_MUTEX)
    ELSE IF A.num_small_pools \notin PoolIdx THEN Fault(A, "wild")
    ELSE create_indexed(
             rbtree_insert([A EXCEPT !.small_pools[A.num_small_pools] = A.newp], A.newp))

create_locked(A, pool_size) ==
    IF ~Running(A) THEN A
    ELSE IF A.num_small_pools >= A.global_config.max_pools
    THEN ReturnErr(LOG_ERROR(MUTEX_UNLOCK(A, GLOBAL_MUTEX), "POOL_FULL"), "POOL_FULL")
    ELSE create_register(create_pool(A, pool_size))

limdy_memory_pool_create(A, pool_size) ==
    create_locked(MUTEX_LOCK(A, GLOBAL_MUTEX), pool_size)

\* limdy_memory_pool_destroy:698-702, after ALIGNED_FREE(pool->memory)
destroy_small(A, pool, i) ==
    IF ~Running(A) THEN A
    ELSE MUTEX_UNLOCK(
             [free_struct(A, pool) EXCEPT
                 !.small_pools[i] = A.small_pools[A.num_small_pools - 1],
                 !.num_small_pools = @ - 1],
             GLOBAL_MUTEX)

SlotsOf(A, pool) == {i \in PoolIdx : i < A.num_small_pools /\ A.small_pools[i] = pool}

destroy_locked(A, pool) ==
    IF ~Running(A) THEN A
    ELSE IF SlotsOf(A, pool) # {}
    THEN IF ~PoolOK(A, pool) THEN Fault(A, "wild")
         ELSE destroy_small(rbtree_remove(ALIGNED_FREE(A, A.pools[pool].memory), pool),
                            pool, FirstOf(SlotsOf(A, pool)))
    ELSE IF pool = A.large_pool
    THEN IF ~PoolOK(A, pool) THEN Fault(A, "wild")
         ELSE MUTEX_UNLOCK(
                  [free_struct(ALIGNED_FREE(A, A.pools[pool].memory), pool)
                      EXCEPT !.large_pool = NULL],
                  GLOBAL_MUTEX)
    ELSE LOG_ERROR(MUTEX_UNLOCK(A, GLOBAL_MUTEX), "INVALID_POOL")

limdy_memory_pool_destroy(A, pool) ==
    IF pool = NULL THEN A
    ELSE destroy_locked(MUTEX_LOCK(A, GLOBAL_MUTEX), pool)

\* limdy_memory_pool_get_stats
RECURSIVE SumSmall(_, _, _)
SumSmall(A, f, i) ==
    IF i = 0 THEN 0 ELSE A.pools[A.small_pools[i - 1]][f] + SumSmall(A, f, i - 1)

stats_locked(A) ==
    IF ~Running(A) THEN A
    ELSE IF \/ \E i \in PoolIdx : i < A.num_small_pools /\ ~PoolOK(A, A.small_pools[i])
            \/ A.num_small_pools > LIMDY_MAX_POOLS
            \/ ~PoolOK(A, A.large_pool)
    THEN Fault(A, "wild")
    ELSE MUTEX_UNLOCK(
             [A EXCEPT !.stats =
                 [total_allocated |-> SumSmall(A, "total_size", A.num_small_pools)
                                        + A.pools[A.large_pool].total_size,
                  total_used |-> SumSmall(A, "used_size", A.num_small_pools)
                                   + A.pools[A.large_pool].used_size]],
             GLOBAL_MUTEX)

limdy_memory_pool_get_stats(A) == stats_locked(MUTEX_LOCK(A, GLOBAL_MUTEX))

\* limdy_memory_pool_cleanup:156-167
RECURSIVE cleanup_small(_, _)
cleanup_small(A, i) ==
    IF ~Running(A) THEN A
    ELSE IF i >= A.num_small_pools THEN [A EXCEPT !.num_small_pools = 0]
    ELSE IF i \notin PoolIdx THEN Fault(A, "wild")
    ELSE IF A.small_pools[i] = NULL THEN cleanup_small(A, i + 1)
    ELSE IF ~PoolOK(A, A.small_pools[i]) THEN Fault(A, "wild")
    ELSE cleanup_small(
             [free_struct(ALIGNED_FREE(A, A.pools[A.small_pools[i]].memory),
                          A.small_pools[i])
                 EXCEPT !.small_pools[i] = NULL],
             i + 1)

\* limdy_memory_pool_cleanup:169-176
cleanup_large(A) ==
    IF ~Running(A) \/ A.large_pool = NULL THEN A
    ELSE IF ~PoolOK(A, A.large_pool) THEN Fault(A, "wild")
    ELSE [free_struct(ALIGNED_FREE(A, A.pools[A.large_pool].memory), A.large_pool)
             EXCEPT !.large_pool = NULL]

\* destroy_node (rbtree.c:407-415)
RECURSIVE destroy_node(_, _)
destroy_node(A, node) ==
    IF ~Running(A) \/ node = NULL THEN A
    ELSE IF ~InChunk(A, node) THEN Fault(A, "wild")
    ELSE limdy_memory_pool_free(
             destroy_node(destroy_node(A, Lft(A.tree, node)), Rgt(A.tree, node)),
             node)

\* limdy_rbtree_destroy (rbtree.c:417-425)
rbtree_destroyed(A) ==
    IF ~Running(A) THEN A
    ELSE [pool_rbtree(A) EXCEPT
             !.tree = [n |-> EmptyNodes, root |-> NULL, size |-> 0, crash |-> FALSE]]
limdy_rbtree_destroy(A) == rbtree_destroyed(destroy_node(A, A.tree.root))

\* limdy_memory_pool_cleanup:181-189: every non-NULL free-list head is
\* handed to free()
RECURSIVE cleanup_slabs(_, _)
cleanup_slabs(A, i) ==
    IF ~Running(A) \/ i = LIMDY_SLAB_SIZES THEN A
    ELSE IF A.slab.slabs[i] = NULL THEN cleanup_slabs(A, i + 1)
    ELSE cleanup_slabs([ALIGNED_FREE(A, A.slab.slabs[i]) EXCEPT !.slab.slabs[i] = NULL],
                       i + 1)

limdy_memory_pool_cleanup(A) ==
    cleanup_slabs(limdy_rbtree_destroy(cleanup_large(cleanup_small(A, 0))), 0)

\* limdy_memory_pool_init
RECURSIVE init_loop(_, _)
RECURSIVE init_created(_, _)
RECURSIVE init_inserted(_, _)
init_loop(A, i) ==
    IF ~Running(A) THEN A
    ELSE IF i < A.global_config.max_pools /\ i < LIMDY_MAX_POOLS
    THEN init_created(create_pool(A, A.global_config.small_pool_size), i)
    ELSE ReturnErr(init_slab_allocator(A), "SUCCESS")

init_created(A, i) ==
    IF ~Running(A) THEN A
    ELSE IF A.err # "SUCCESS"
    THEN ReturnErr(limdy_memory_pool_cleanup([A EXCEPT !.small_pools[i] = A.newp]), A.err)
    ELSE init_inserted(rbtree_insert([A EXCEPT !.small_pools[i] = A.newp], A.newp), i)

init_inserted(A, i) ==
    IF ~Running(A) THEN A
    ELSE IF A.err # "SUCCESS" THEN ReturnErr(limdy_memory_pool_cleanup(A), A.err)
    ELSE init_loop([A EXCEPT !.num_small_pools = @ + 1], i + 1)

init_large(A) ==
    IF ~Running(A) THEN A
    ELSE IF A.err # "SUCCESS" THEN [A EXCEPT !.large_pool = A.newp]
    ELSE init_loop([A EXCEPT !.large_pool = A.newp,
                             !.tree = [n |-> EmptyNodes, root |-> NULL, size |-> 0,
                                       crash |-> FALSE]],
                   0)

limdy_memory_pool_init(A, config) ==
    init_large(create_pool([A EXCEPT !.global_config = config], config.large_pool_size))

\* ------------------------------------------------------------------------
\* Specification SpecRB: the pool index on its own, driven through
\* limdy_rbtree_insert, limdy_rbtree_remove and limdy_rbtree_find_best_fit.
\* Pool structs 1..MaxRBPools exist from the start, each with the total_size
\* create_pool gave it (several pools share a size); a pool is inserted when
\* it is not indexed and removed when it is.  Node memory comes from
\* addresses 1..MaxRBPools, lowest free address first.
\* ------------------------------------------------------------------------
RBPoolIds == 1 .. MaxRBPools
RBSizeOf(p) == ((p - 1) % MaxRBSize) + 1
NoPre == [b |-> 0 - 1, succ |-> NULL, ssize |-> 0, snext |-> NULL]
NoCall == [op |-> "none", pool |-> NULL, ptr |-> NULL, size |-> 0, ret |-> NULL,
           used |-> 0, prev |-> "none", prevret |-> NULL, prevused |-> 0,
           pairs |-> TRUE, slab |-> FALSE, pre |-> NoPre]
NoRes == [op |-> "none", size |-> 0, result |-> NULL, twoKids |-> FALSE]
\* what a call did, read off the record it leaves
Audit(A) == [acq |-> A.acq, unguarded |-> A.unguarded, copy |-> A.copy]

PoolStruct(memory, total) ==
    [memory |-> memory, free_list |-> memory, total_size |-> total,
     used_size |-> 0]

PoolSize == [p \in DOMAIN pools |-> pools[p].total_size]

FreshNode == CHOOSE a \in RBPoolIds \ DOMAIN tree.n :
                 \A b \in RBPoolIds \ DOMAIN tree.n : a <= b

\* The allocator proper plays no part in SpecRB.
AllocatorUnused ==
    /\ mem = Zeroed.mem
    /\ small_pools = Zeroed.small_pools
    /\ num_small_pools = Zeroed.num_small_pools
    /\ large_pool = Zeroed.large_pool
    /\ global_config = Zeroed.global_config
    /\ slab_allocator = Zeroed.slab
    /\ heap = Zeroed.heap
    /\ status = Zeroed.status
    /\ held = Zeroed.held
    /\ log = Zeroed.log
    /\ live = {}
    /\ last = NoCall
    /\ calls = 0
    /\ audit = Audit(Zeroed)

InitRB ==
    /\ tree = [n |-> EmptyNodes, root |-> NULL, size |-> 0, crash |-> FALSE]
    /\ pools = [p \in RBPoolIds |-> PoolStruct(NULL, RBSizeOf(p))]
    /\ indexed = {}
    /\ rbres = NoRes
    /\ AllocatorUnused

RBInsert(p) ==
    /\ ~tree.crash
    /\ p \notin indexed
    /\ tree' = limdy_rbtree_insert(tree, PoolSize, FreshNode, p)
    /\ indexed' = indexed \cup {p}
    /\ rbres' = [NoRes EXCEPT !.op = "insert"]
    /\ UNCHANGED <<pools, allocVars>>

RBRemove(p) ==
    /\ ~tree.crash
    /\ p \in indexed
    /\ LET z == remove_search(tree, PoolSize, p, tree.root)
       IN  /\ tree' = IF z = NULL THEN tree
                      ELSE remove_finish(remove_unlink(tree, z), z)
           /\ rbres' = [NoRes EXCEPT !.op = "remove",
                          !.twoKids = (z # NULL /\ Lft(tree, z) # NULL
                                                /\ Rgt(tree, z) # NULL)]
    /\ indexed' = indexed \ {p}
    /\ UNCHANGED <<pools, allocVars>>

RBFind(s) ==
    /\ ~tree.crash
    /\ rbres' = [NoRes EXCEPT !.op = "find", !.size = s,
                   !.result = limdy_rbtree_find_best_fit(tree, PoolSize, s)]
    /\ UNCHANGED <<tree, pools, indexed, allocVars>>

NextRB ==
    \/ \E p \in RBPoolIds : RBInsert(p)
    \/ \E p \in RBPoolIds : RBRemove(p)
    \/ \E s \in 0 .. MaxRBSize + 1 : RBFind(s)

SpecRB == InitRB /\ [][NextRB]_vars

\* C7: after every completed insert and remove the operation has completed
\* (no NULL node pointer was dereferenced) and the tree has a black root, no
\* red node with a red child, and one black height on all root-to-NIL paths.
C7_RBPropertiesAfterInsertRemove ==
    rbres.op \in {"insert", "remove"} => ~tree.crash /\ RBProperties(tree)

\* C9: find_best_fit returns a pool of least total_size among the indexed
\* pools with total_size >= size, and NULL exactly when there is none.
IndexedPools(T) == {T.n[a].pool : a \in DOMAIN T.n}
Fitting(T, s) == {p \in IndexedPools(T) : PoolSize[p] >= s}

C9_BestFitIsMinimal ==
    rbres.op = "find" =>
        IF Fitting(tree, rbres.size) = {}
        THEN rbres.result = NULL
        ELSE /\ rbres.result \in Fitting(tree, rbres.size)
             /\ \A q \in Fitting(tree, rbres.size) :
                    PoolSize[rbres.result] <= PoolSize[q]

C9_Witness ==
    /\ rbres.op = "find"
    /\ rbres.result # NULL
    /\ tree.size >= 3
    /\ \E q \in Fitting(tree, rbres.size) : PoolSize[q] > PoolSize[rbres.result]

\* ------------------------------------------------------------------------
\* Specification Spec: one client thread calling the allocator after
\* limdy_memory_pool_init(Config) returned.  The client holds at most
\* MaxLive pointers; the pool-level entry points are called on the small
\* pools that exist.  A call that does not return leaves the state where it
\* stopped, with status telling why; no call follows it.
\* ------------------------------------------------------------------------
Config == [small_pool_size |-> CfgSmallPoolSize, large_pool_size |-> CfgLargePoolSize,
           max_pools |-> CfgMaxPools, slab_objects_per_slab |-> CfgSlabObjects]

\* request sizes the client uses
AllocSizes == {24, 136, CfgSmallPoolSize + LIMDY_MEMORY_ALIGNMENT}
FromSizes == {0, 16, CfgSmallPoolSize - 2 * HEADER_SIZE}
ReallocSizes == {32, 136, CfgLargePoolSize - 3 * HEADER_SIZE}
CreateSizes == {CfgSmallPoolSize}

\* the allocator state of the current state
Cur ==
    [Zeroed EXCEPT !.mem = mem, !.pools = pools, !.small_pools = small_pools,
                   !.num_small_pools = num_small_pools, !.large_pool = large_pool,
                   !.global_config = global_config, !.tree = tree,
                   !.slab = slab_allocator, !.heap = heap, !.held = held]

\* What a call that did not return normally does to the process.  Locking
\* a default mutex twice and accessing memory that is not live are
\* undefined: the thread blocks forever resp. the process is killed, or
\* anything else happens ("ub").
Outcomes(s) ==
    IF s = "relock" THEN {"deadlock", "ub"}
    ELSE IF s = "wild" THEN {"segv", "ub"}
    ELSE {s}

Commit(A) ==
    /\ mem' = A.mem
    /\ pools' = A.pools
    /\ small_pools' = A.small_pools
    /\ num_small_pools' = A.num_small_pools
    /\ large_pool' = A.large_pool
    /\ global_config' = A.global_config
    /\ tree' = A.tree
    /\ slab_allocator' = A.slab
    /\ heap' = A.heap
    /\ held' = A.held
    /\ log' = A.log
    /\ status' \in Outcomes(A.status)
    /\ calls' = calls + 1
    /\ audit' = Audit(A)
    /\ UNCHANGED <<indexed, rbres>>

\* the state limdy_memory_pool_init(&Config) leaves
Booted == limdy_memory_pool_init(Zeroed, Config)


InitFrom(B) ==
    /\ mem = B.mem
    /\ pools = B.pools
    /\ small_pools = B.small_pools
    /\ num_small_pools = B.num_small_pools
    /\ large_pool = B.large_pool
    /\ global_config = B.global_config
    /\ tree = B.tree
    /\ slab_allocator = B.slab
    /\ heap = B.heap
    /\ held = B.held
    /\ log = B.log
    /\ status = B.status
    /\ live = {}
    /\ last = NoCall
    /\ calls = 0
    /\ audit = Audit(Zeroed)
    /\ indexed = {}
    /\ rbres = NoRes

Init == InitFrom(Booted)

Handles == {small_pools[i] : i \in {j \in PoolIdx : j < num_small_pools}}

\* total_used as limdy_memory_pool_get_stats reports it when called now; the
\* call changes nothing, so the client's calls to it are not steps of Spec
StatsUsed == limdy_memory_pool_get_stats(Cur).stats.total_used

\* ptr lies in the arena of a pool that exists
InPool(A, ptr) ==
    \E pool \in DOMAIN A.pools : limdy_memory_pool_contains(A, pool, ptr)

\* ptr was handed out by the slab allocator: it lies in live memory outside
\* every arena
SlabServed(A, ptr) == ptr # NULL /\ InChunk(A, ptr) /\ ~InPool(A, ptr)

\* The block of the pool allocation ptr as it is before a realloc: payload
\* b and, if the next block exists and is free, its address, payload and
\* successor.
PreOf(A, ptr) ==
    IF ~(InPool(A, ptr) /\ HdrOK(A, BlockOf(ptr))) THEN NoPre
    ELSE IF Fld(A, BlockOf(ptr), OFF_MAGIC) # MEMORY_BLOCK_MAGIC
            \/ Fld(A, BlockOf(ptr), OFF_IN_USE) = 0 THEN NoPre
    ELSE IF Fld(A, BlockOf(ptr), OFF_NEXT) = NULL
            \/ ~HdrOK(A, Fld(A, BlockOf(ptr), OFF_NEXT))
    THEN [NoPre EXCEPT !.b = Fld(A, BlockOf(ptr), OFF_SIZE)]
    ELSE IF Fld(A, Fld(A, BlockOf(ptr), OFF_NEXT), OFF_IN_USE) # 0
    THEN [NoPre EXCEPT !.b = Fld(A, BlockOf(ptr), OFF_SIZE)]
    ELSE [b |-> Fld(A, BlockOf(ptr), OFF_SIZE),
          succ |-> Fld(A, BlockOf(ptr), OFF_NEXT),
          ssize |-> Fld(A, Fld(A, BlockOf(ptr), OFF_NEXT), OFF_SIZE),
          snext |-> Fld(A, Fld(A, BlockOf(ptr), OFF_NEXT), OFF_NEXT)]

\* The client has so far only paired each alloc with a free of its result.
Paired(op, ptr) ==
    /\ last.pairs
    /\ \/ op = "alloc" /\ last.op \in {"none", "free"}
       \/ op = "free" /\ last.op = "alloc" /\ ptr = last.ret

Called(op, pool, ptr, size) ==
    [NoCall EXCEPT !.op = op, !.pool = pool, !.ptr = ptr, !.size = size,
                   !.used = IF op = "alloc" THEN StatsUsed ELSE 0,
                   !.prev = IF last.op \in {"alloc", "free_to"} THEN last.op ELSE "none",
                   !.prevret = IF last.op = "alloc" THEN last.ret ELSE NULL,
                   !.prevused = IF last.op = "alloc" THEN last.used ELSE 0,
                   !.pairs = Paired(op, ptr),
                   !.slab = op \in {"free", "realloc"} /\ SlabServed(Cur, ptr),
                   !.pre = IF op \in {"realloc", "realloc_from"}
                           THEN PreOf(Cur, ptr) ELSE NoPre]

\* the client's side of a call that may hand out a pointer
Got(A, l) ==
    /\ Commit(A)
    /\ live' = IF Running(A) /\ A.ret # NULL THEN live \cup {A.ret} ELSE live
    /\ last' = [l EXCEPT !.ret = A.ret]

\* the client's side of a call that takes the pointer ptr back
Gave(A, l) ==
    /\ Commit(A)
    /\ live' = live \ {l.ptr}
    /\ last' = l

\* the client's side of a realloc of ptr
Moved(A, l) ==
    /\ Commit(A)
    /\ live' = IF ~Running(A) THEN live
               ELSE IF l.size = 0 THEN live \ {l.ptr}
               ELSE IF A.ret = NULL THEN live
               ELSE (live \ {l.ptr}) \cup {A.ret}
    /\ last' = [l EXCEPT !.ret = A.ret]

\* the client's side of a call that hands out and takes back nothing
Did(A, l) ==
    /\ Commit(A)
    /\ live' = live
    /\ last' = l

Ready == status = "run" /\ calls < MaxCalls

Alloc(n) ==
    /\ Ready
    /\ Cardinality(live) < MaxLive
    /\ Got(limdy_memory_pool_alloc(Cur, n), Called("alloc", NULL, NULL, n))

Free(p) ==
    /\ Ready
    /\ Gave(limdy_memory_pool_free(Cur, p), Called("free", NULL, p, 0))

Realloc(p, n) ==
    /\ Ready
    /\ Moved(limdy_memory_pool_realloc(Cur, p, n), Called("realloc", NULL, p, n))

AllocFrom(pool, n) ==
    /\ Ready
    /\ Cardinality(live) < MaxLive
    /\ Got(limdy_memory_pool_alloc_from(Cur, pool, n), Called("alloc_from", pool, NULL, n))

FreeTo(pool, p) ==
    /\ Ready
    /\ limdy_memory_pool_contains(Cur, pool, p)
    /\ Gave(limdy_memory_pool_free_to(Cur, pool, p), Called("free_to", pool, p, 0))

ReallocFrom(pool, p, n) ==
    /\ Ready
    /\ limdy_memory_pool_contains(Cur, pool, p)
    /\ Moved(limdy_memory_pool_realloc_from(Cur, pool, p, n),
             Called("realloc_from", pool, p, n))

\* free called a second time with the pointer just freed
FreeAgain ==
    /\ Ready
    /\ last.op = "free"
    /\ Did(limdy_memory_pool_free(Cur, last.ptr), Called("free_again", NULL, last.ptr, 0))

FreeToAgain ==
    /\ Ready
    /\ last.op = "free_to"
    /\ Did(limdy_memory_pool_free_to(Cur, last.pool, last.ptr),
           Called("free_to_again", last.pool, last.ptr, 0))

Defragment(pool) ==
    /\ Ready
    /\ Did(limdy_memory_pool_defragment(Cur, pool), Called("defragment", pool, NULL, 0))

Create(size) ==
    /\ Ready
    /\ Did(limdy_memory_pool_create(Cur, size), Called("create", NULL, NULL, size))

Destroy(pool) ==
    /\ Ready
    /\ Did(limdy_memory_pool_destroy(Cur, pool), Called("destroy", pool, NULL, 0))

Next ==
    \/ \E n \in AllocSizes : Alloc(n)
    \/ \E p \in live : Free(p)
    \/ \E p \in live, n \in ReallocSizes : Realloc(p, n)
    \/ \E pool \in Handles, n \in FromSizes : AllocFrom(pool, n)
    \/ \E pool \in Handles, p \in live : FreeTo(pool, p)
    \/ \E pool \in Handles, p \in live, n \in ReallocSizes : ReallocFrom(pool, p, n)
    \/ FreeAgain
    \/ FreeToAgain
    \/ \E pool \in Handles : Defragment(pool)
    \/ \E size \in CreateSizes : Create(size)
    \/ \E pool \in Handles : Destroy(pool)

Spec == Init /\ [][Next]_vars

\* ------------------------------------------------------------------------
\* Properties of Spec
\* ------------------------------------------------------------------------
\* the block list of a pool as the code walks it, from block on
RECURSIVE BlockList(_, _, _)
BlockList(A, block, fuel) ==
    IF block = NULL \/ fuel = 0 \/ ~HdrOK(A, block) THEN <<>>
    ELSE <<block>> \o BlockList(A, Fld(A, block, OFF_NEXT), fuel - 1)

Blocks(pool) == BlockList(Cur, pools[pool].free_list, WalkFuel)

RECURSIVE SumSeq(_)
SumSeq(q) == IF q = <<>> THEN 0 ELSE Head(q) + SumSeq(Tail(q))

\* sizeof(header) + payload size, summed over the blocks in use
InUseBytes(pool) ==
    SumSeq([i \in DOMAIN Blocks(pool) |->
               IF Fld(Cur, Blocks(pool)[i], OFF_IN_USE) # 0
               THEN HEADER_SIZE + Fld(Cur, Blocks(pool)[i], OFF_SIZE)
               ELSE 0])

\* C1: whenever alloc_from, free_to or realloc_from has returned, the
\* used_size of the pool it was called on equals the sum of header size plus
\* payload size over the pool's blocks that are in use.
C1_UsedSizeIsSumOfInUseBlocks ==
    (status = "run" /\ last.op \in {"alloc_from", "free_to", "realloc_from"}
                    /\ last.pool \in DOMAIN pools)
        => pools[last.pool].used_size = InUseBytes(last.pool)

\* C2: when free(p) returns right after p = alloc(n) returned p, the total
\* used that stats reports is what it was before the alloc.
C2_AllocFreeRestoresUsed ==
    (status = "run" /\ last.op = "free" /\ last.prev = "alloc"
                    /\ last.prevret = last.ptr)
        => StatsUsed = last.prevused

\* C3: no call blocks forever on a mutex that the calling thread itself
\* already holds.
C3_NoCallBlocksOnOwnMutex == status # "deadlock"

\* no free block of the pool has a free immediate successor
NoAdjacentFree(pool) ==
    \A i \in DOMAIN Blocks(pool) :
        (i + 1 \in DOMAIN Blocks(pool)
            /\ Fld(Cur, Blocks(pool)[i], OFF_IN_USE) = 0)
        => Fld(Cur, Blocks(pool)[i + 1], OFF_IN_USE) # 0

\* C4: after every completed alloc_from, free_to, realloc_from and
\* defragment no free block of the pool has a free immediate successor.
C4_NoAdjacentFreeBlocks ==
    (status = "run"
        /\ last.op \in {"alloc_from", "free_to", "realloc_from", "defragment"}
        /\ last.pool \in DOMAIN pools)
        => NoAdjacentFree(last.pool)

\* headers once written in the arena of pool, other than its first
StaleOrLinked(pool) ==
    {a \in DOMAIN mem :
        /\ a > pools[pool].memory
        /\ a < pools[pool].memory + pools[pool].total_size
        /\ (a - pools[pool].memory) % 8 = 0
        /\ mem[a] = MEMORY_BLOCK_MAGIC}

\* free_to has merged a block with a free predecessor and a free successor:
\* two free_to calls in a row left one free block where three had been.
C4_Witness ==
    /\ status = "run"
    /\ last.op = "free_to"
    /\ last.prev = "free_to"
    /\ last.pool \in DOMAIN pools
    /\ Len(Blocks(last.pool)) = 1
    /\ Fld(Cur, Blocks(last.pool)[1], OFF_IN_USE) = 0
    /\ Cardinality(StaleOrLinked(last.pool)) >= 2

\* C5: every non-NULL pointer returned by alloc, alloc_from, realloc and
\* realloc_from is a multiple of LIMDY_MEMORY_ALIGNMENT.
C5_ReturnedPointersAligned ==
    (status = "run" /\ last.op \in {"alloc", "alloc_from", "realloc", "realloc_from"}
                    /\ last.ret # NULL)
        => last.ret % LIMDY_MEMORY_ALIGNMENT = 0

\* C6: a second free (free_to) of the pointer just freed does not return
\* normally: it is reported as Corruption and the process exits.
C6_DoubleFreeIsFatalCorruption ==
    last.op \in {"free_again", "free_to_again"}
        => status = "exit" /\ "CORRUPTION" \in log

\* C8: the index holds exactly one node for every live small pool and no
\* node for any other pool.
NodesOf(pool) == {a \in DOMAIN tree.n : tree.n[a].pool = pool}
C8_IndexHoldsLiveSmallPoolsOnce ==
    status = "run" =>
        /\ \A pool \in Handles : Cardinality(NodesOf(pool)) = 1
        /\ \A a \in DOMAIN tree.n : tree.n[a].pool \in Handles

\* C10: a non-NULL pointer returned by alloc_from(pool, n) satisfies
\* contains(pool, p).
C10_AllocFromResultInPool ==
    (status = "run" /\ last.op = "alloc_from" /\ last.ret # NULL)
        => limdy_memory_pool_contains(Cur, last.pool, last.ret)

\* C11: a client that only ever pairs p = alloc(n) with free(p) sees every
\* call return, no corruption report and no assertion failure, and after
\* each free the used figure of the statistics is what it was when the
\* client started.
InitUsed == limdy_memory_pool_get_stats(Booted).stats.total_used
C11_PairedAllocFreeLeavesNothingUsed ==
    (last.pairs /\ last.op = "free")
        => /\ status = "run"
           /\ "CORRUPTION" \notin log
           /\ StatsUsed = InitUsed

\* C12: every search, insert and remove on the pool index is made with
\* global_mutex held by the calling thread.
C12_IndexUsedUnderGlobalMutex == ~audit.unguarded

\* C13: locks are taken in the order global_mutex, pool mutex, slab mutex:
\* global_mutex is never acquired while a pool mutex or the slab mutex is
\* held, and no pool mutex is acquired while the slab mutex is held, by the
\* last call of the client and by limdy_memory_pool_init.
IsPoolMutex(m) == m \notin {GLOBAL_MUTEX, SLAB_MUTEX}
C13_LockOrder ==
    \A a \in audit.acq \cup Booted.acq :
        /\ a.lock = GLOBAL_MUTEX => a.held = {}
        /\ IsPoolMutex(a.lock) => SLAB_MUTEX \notin a.held

C13_Witness ==
    /\ status = "run"
    /\ \E a \in audit.acq : a.lock = SLAB_MUTEX /\ \E h \in a.held : IsPoolMutex(h)
    /\ \E a \in audit.acq : IsPoolMutex(a.lock) /\ a.held = {}

\* C14: a thread inside limdy_memory_pool_alloc (called by the client or by
\* a realloc) never holds more than one pool mutex.
C14_AllocHoldsOnePoolMutex ==
    \A a \in audit.acq :
        (a.in_alloc /\ IsPoolMutex(a.lock)) => \A h \in a.held : ~IsPoolMutex(h)

\* C15: limdy_memory_pool_realloc(p, s) and limdy_memory_pool_realloc_from(pool,
\* p, s) of a live pool allocation p with payload b and 0 < s <= b return p
\* itself and leave its block in use with payload b.
C15_ShrinkReturnsSamePointer ==
    (/\ last.op \in {"realloc", "realloc_from"}
     /\ last.pre.b >= 0
     /\ 0 < last.size
     /\ ALIGN_SIZE(last.size, LIMDY_MEMORY_ALIGNMENT) <= last.pre.b)
        => /\ status = "run"
           /\ last.ret = last.ptr
           /\ Fld(Cur, BlockOf(last.ptr), OFF_SIZE) = last.pre.b
           /\ Fld(Cur, BlockOf(last.ptr), OFF_IN_USE) # 0

\* C17: a limdy_memory_pool_realloc or limdy_memory_pool_realloc_from of the
\* pool allocation p that moves it copies exactly min(old payload of p, m)
\* bytes, and the copy writes no byte outside the payload of the new block.
C17_MoveCopiesMinOfOldAndNew ==
    (/\ last.op \in {"realloc", "realloc_from"}
     /\ last.pre.b >= 0
     /\ audit.copy.done)
        => /\ audit.copy.n = (IF last.pre.b < last.size THEN last.pre.b ELSE last.size)
           /\ audit.copy.n <= audit.copy.cap

\* C16: when p is a live allocation with payload b, s > b, and the successor
\* of p's block is free with b + sizeof(header) + successor.size >= s,
\* limdy_memory_pool_realloc_from(pool, p, s) returns p, the payload becomes
\* at least s, and the successor is absorbed: if the bytes left over hold a
\* header, a free remainder follows the grown block and is linked in both
\* directions to the grown block and to the block that followed the
\* successor; otherwise the grown block takes all the bytes and is linked in
\* both directions to that block.
GrownInPlace(blk, s, total, snext) ==
    IF total - s >= MIN_BLOCK_SIZE
    THEN /\ Fld(Cur, blk, OFF_SIZE) = s
         /\ Fld(Cur, blk, OFF_NEXT) = Data(blk) + s
         /\ Fld(Cur, Data(blk) + s, OFF_MAGIC) = MEMORY_BLOCK_MAGIC
         /\ Fld(Cur, Data(blk) + s, OFF_SIZE) = total - s - HEADER_SIZE
         /\ Fld(Cur, Data(blk) + s, OFF_IN_USE) = 0
         /\ Fld(Cur, Data(blk) + s, OFF_NEXT) = snext
         /\ Fld(Cur, Data(blk) + s, OFF_PREV) = blk
         /\ snext # NULL => Fld(Cur, snext, OFF_PREV) = Data(blk) + s
    ELSE /\ Fld(Cur, blk, OFF_SIZE) = total
         /\ Fld(Cur, blk, OFF_NEXT) = snext
         /\ snext # NULL => Fld(Cur, snext, OFF_PREV) = blk

C16_GrowInPlaceAbsorbsSuccessor ==
    (/\ last.op = "realloc_from"
     /\ last.pre.succ # NULL
     /\ ALIGN_SIZE(last.size, LIMDY_MEMORY_ALIGNMENT) > last.pre.b
     /\ last.pre.b + HEADER_SIZE + last.pre.ssize
            >= ALIGN_SIZE(last.size, LIMDY_MEMORY_ALIGNMENT))
        => /\ status = "run"
           /\ last.ret = last.ptr
           /\ Fld(Cur, BlockOf(last.ptr), OFF_IN_USE) # 0
           /\ GrownInPlace(BlockOf(last.ptr),
                           ALIGN_SIZE(last.size, LIMDY_MEMORY_ALIGNMENT),
                           last.pre.b + HEADER_SIZE + last.pre.ssize,
                           last.pre.snext)

\* C18: for p served by the slab allocator, limdy_memory_pool_realloc(p, m)
\* with m > LIMDY_SLAB_MAX_SIZE that a pool can serve returns a non-NULL
\* pointer inside a pool, and p is back on a slab free list.
C18_SlabObjectMovesToPool ==
    (/\ last.op = "realloc"
     /\ last.slab
     /\ last.size > LIMDY_SLAB_MAX_SIZE
     /\ last.size + HEADER_SIZE <= CfgSmallPoolSize
     /\ last.prev = "alloc" /\ last.prevret = last.ptr)
        => /\ status = "run"
           /\ last.ret # NULL
           /\ InPool(Cur, last.ret)
           /\ \E i \in SlabIdx : slab_allocator.slabs[i] = last.ptr

\* C19: limdy_memory_pool_free(p) of a live object p served by the slab
\* allocator is treated as a slab free and pushes p onto a class's free
\* list: afterwards p is the head of a free list, so the next allocation of
\* that class returns it.
C19_SlabFreePushesObject ==
    (last.op = "free" /\ last.slab)
        => /\ status = "run"
           /\ "INVALID_FREE" \notin log
           /\ \E i \in SlabIdx : slab_allocator.slabs[i] = last.ptr

\* C20: after a successful limdy_memory_pool_init(config) and before any
\* call of the client, limdy_memory_pool_get_stats reports total_allocated =
\* (number of small pools) * small_pool_size + large_pool_size and
\* total_used = 0.
C20_StatsAfterInit ==
    (calls = 0 /\ status = "run")
        => /\ limdy_memory_pool_get_stats(Cur).stats.total_allocated
                = num_small_pools * global_config.small_pool_size
                    + global_config.large_pool_size
           /\ StatsUsed = 0

\* ------------------------------------------------------------------------
\* Specification SpecLife: a process from before limdy_memory_pool_init to
\* limdy_memory_pool_cleanup.  The process starts with the allocator's
\* statics zeroed and with some of the system allocator's memory already
\* taken by the rest of the program, so that malloc or posix_memalign can
\* fail at any step of limdy_memory_pool_init.
\* ------------------------------------------------------------------------
\* pool structs and arena bytes the rest of the program has taken
LifeStructs == {0, MaxPoolStructs - 2, MaxPoolStructs - 1, MaxPoolStructs}
LifeBrk ==
    {HeapBase,
     HeapEnd - 2 * HeapGap - CfgLargePoolSize
         - ALIGN_SIZE(CfgSmallPoolSize, LIMDY_MEMORY_ALIGNMENT),
     HeapEnd - CfgLargePoolSize}
Started(structs, brk) == [Zeroed EXCEPT !.heap.structs = structs, !.heap.brk = brk]

InitLife == \E structs \in LifeStructs, brk \in LifeBrk : InitFrom(Started(structs, brk))

\* request sizes around LIMDY_SLAB_MAX_SIZE
EdgeSizes == {LIMDY_MEMORY_ALIGNMENT + 1, LIMDY_SLAB_MAX_SIZE, LIMDY_SLAB_MAX_SIZE + 1}

\* limdy_memory_pool_init has been called
InitCalled == global_config # Zeroed.global_config
\* limdy_memory_pool_init has returned ERROR_SUCCESS (its last step fills
\* slab_sizes) and limdy_memory_pool_cleanup has not been called
InService == slab_allocator.slab_sizes[0] # 0 /\ large_pool # NULL

\* ErrorCode as the caller tests it: ERROR_SUCCESS is 0
Failed(A) == IF A.err = "SUCCESS" THEN 0 ELSE 1

LifeInit ==
    /\ Ready
    /\ ~InitCalled
    /\ Did(limdy_memory_pool_init(Cur, Config),
           [Called("init", NULL, NULL, 0) EXCEPT
               !.ret = Failed(limdy_memory_pool_init(Cur, Config))])

LifeAlloc(n) ==
    /\ InService
    /\ Alloc(n)

LifeFree(p) ==
    /\ InService
    /\ Free(p)

\* requests for the whole arena of a small pool and for one byte more
WholePoolSizes == {CfgSmallPoolSize - HEADER_SIZE, CfgSmallPoolSize - HEADER_SIZE + 1}

LifeAllocFrom(pool, n) ==
    /\ InService
    /\ AllocFrom(pool, n)

LifeCreate(size) ==
    /\ InService
    /\ Ready
    /\ Did(limdy_memory_pool_create(Cur, size),
           [Called("create", NULL, NULL, size) EXCEPT
               !.ret = Failed(limdy_memory_pool_create(Cur, size))])

LifeDestroy(pool) ==
    /\ InService
    /\ Destroy(pool)

\* pointers the allocator never handed out: past the end of the heap
WildPtrs == {HeapEnd + LIMDY_MEMORY_ALIGNMENT}

\* limdy_memory_pool_free_to with a pointer that may lie outside the pool
LifeFreeTo(pool, p) ==
    /\ InService
    /\ Ready
    /\ Gave(limdy_memory_pool_free_to(Cur, pool, p), Called("free_to", pool, p, 0))

\* free(NULL), which a client may call in any state of the allocator
LifeFreeNull == Free(NULL)

LifeCleanup ==
    /\ Ready
    /\ InitCalled
    /\ last.op # "cleanup"
    /\ Did(limdy_memory_pool_cleanup(Cur), Called("cleanup", NULL, NULL, 0))

\* --- the Translator and TranslatorAligner clients -------------------------
\* ErrorCode (error_handler.h:34-37), by value
ERROR_SUCCESS == 0
ERROR_NULL_POINTER == 1
\* sizeof(Translator) and offsetof(Translator, pool): a pointer, a
\* pthread_mutex_t of 40 bytes, a pointer
SIZEOF_TRANSLATOR == 56
OFF_TRANSLATOR_POOL == 48
\* LIMDY_SMALL_POOL_SIZE, which is also the small_pool_size of the default
\* configuration: the model's scaled configuration stands for it
LIMDY_SMALL_POOL_SIZE == CfgSmallPoolSize

\* error_log: the ErrorContext handed to the installed handler carries the
\* code error_log was given; an ErrorCode made from NULL is 0
error_log(A, code) ==
    LOG_ERROR(A, IF code = ERROR_SUCCESS THEN "SUCCESS"
                 ELSE IF code = ERROR_NULL_POINTER THEN "NULL_POINTER"
                 ELSE "UNKNOWN")

\* CHECK_NULL(ptr, error_code): logs error_code and returns it from the
\* enclosing function when ptr is NULL
CHECK_NULL(A, ptr, error_code) ==
    IF Running(A) /\ ptr = NULL
    THEN Return(error_log(A, error_code), error_code)
    ELSE A

\* translator_create:88-97, after limdy_memory_pool_create; pthread_mutex_init
\* with default attributes does not fail
translator_pool(A, translator) ==
    IF ~Running(A) THEN A
    ELSE IF A.err # "SUCCESS"
    THEN Return(LOG_ERROR(limdy_memory_pool_free(A, translator), A.err), NULL)
    ELSE Return(MemWrite(A, <<translator + OFF_TRANSLATOR_POOL, A.newp>>), translator)

\* translator_create:77-88, after limdy_memory_pool_alloc left the
\* translator in A.ret
translator_init(A, service) ==
    IF ~Running(A) THEN A
    ELSE IF A.ret = NULL THEN CHECK_NULL(A, A.ret, NULL)
    ELSE translator_pool(
             limdy_memory_pool_create(MemWrite(A, <<A.ret, service>>),
                                      LIMDY_SMALL_POOL_SIZE),
             A.ret)

translator_create(A, service) ==
    IF service = NULL THEN CHECK_NULL(A, service, NULL)
    ELSE translator_init(limdy_memory_pool_alloc(A, SIZEOF_TRANSLATOR), service)

\* translator_aligner_process; error is what translator_translate and
\* aligner_align report once every argument has passed its check (the
\* language and result arguments are not NULL)
translator_aligner_process(A, ta, text, error) ==
    IF ta = NULL THEN CHECK_NULL(A, ta, ERROR_NULL_POINTER)
    ELSE IF text = NULL THEN CHECK_NULL(A, text, ERROR_NULL_POINTER)
    ELSE IF error # ERROR_SUCCESS THEN Return(error_log(A, error), error)
    ELSE Return(A, ERROR_SUCCESS)

\* objects of the client that the allocator does not own
Service == HeapEnd + 2 * LIMDY_MEMORY_ALIGNMENT
Text == HeapEnd + 3 * LIMDY_MEMORY_ALIGNMENT
Facade == HeapEnd + 4 * LIMDY_MEMORY_ALIGNMENT

LifeTranslatorCreate(service) ==
    /\ service = NULL \/ InService
    /\ Ready
    /\ Cardinality(live) < MaxLive
    /\ Got(translator_create(Cur, service), Called("translator_create", NULL, service, 0))

LifeProcess(ta, text, error) ==
    /\ Ready
    /\ Did(translator_aligner_process(Cur, ta, text, error),
           [Called("process", ta, text, 0) EXCEPT
               !.ret = translator_aligner_process(Cur, ta, text, error).ret])

NextLife ==
    \/ LifeInit
    \/ \E n \in EdgeSizes : LifeAlloc(n)
    \/ \E p \in live \cup WildPtrs : LifeFree(p)
    \/ LifeFreeNull
    \/ \E pool \in Handles, p \in live \cup WildPtrs : LifeFreeTo(pool, p)
    \/ \E pool \in Handles, n \in WholePoolSizes : LifeAllocFrom(pool, n)
    \/ \E size \in CreateSizes : LifeCreate(size)
    \/ \E pool \in Handles : LifeDestroy(pool)
    \/ LifeCleanup
    \/ \E service \in {NULL, Service} : LifeTranslatorCreate(service)
    \/ \E ta \in {NULL, Facade}, text \in {NULL, Text},
          error \in {ERROR_SUCCESS, ERROR_NULL_POINTER} : LifeProcess(ta, text, error)

SpecLife == InitLife /\ [][NextLife]_vars

\* ------------------------------------------------------------------------
\* Properties of SpecLife
\* ------------------------------------------------------------------------
\* the slab class limdy_memory_pool_alloc(n) asks slab_alloc for
ClassOf(n) == slab_index(Cur, ALIGN_SIZE(n, LIMDY_MEMORY_ALIGNMENT), 0)
\* the class has a free object, or the system allocator has room for a slab
SlabCanServe(i) ==
    \/ slab_allocator.free_objects[i] # 0
    \/ /\ heap.slabs < MaxSlabChunks
       /\ CanAlloc(Cur, slab_allocator.slab_sizes[i] * global_config.slab_objects_per_slab)
\* ptr is an object of a slab of class i
ObjectOfClass(ptr, i) ==
    \E c \in heap.chunks :
        /\ c.size = slab_allocator.slab_sizes[i] * global_config.slab_objects_per_slab
        /\ \E k \in 0 .. global_config.slab_objects_per_slab - 1 :
               ptr = c.base + k * slab_allocator.slab_sizes[i]
        /\ ~InPool(Cur, ptr)

\* C21: after init, limdy_memory_pool_alloc(n) is served by the slab
\* allocator, from the smallest class >= n, for every n whose aligned size
\* is at most LIMDY_SLAB_MAX_SIZE (as long as the class has a free object or
\* the system can provide a slab), and by a pool for every larger n.
ServedAsClaimed ==
    IF ALIGN_SIZE(last'.size, LIMDY_MEMORY_ALIGNMENT) <= LIMDY_SLAB_MAX_SIZE
    THEN /\ ClassOf(last.size)' \in SlabIdx
         /\ (slab_allocator.slab_sizes[ClassOf(last.size)] >= last.size)'
         /\ (\A j \in SlabIdx :
                slab_allocator.slab_sizes[j] >= last.size => j >= ClassOf(last.size))'
         /\ SlabCanServe(ClassOf(last.size)') => ObjectOfClass(last.ret, ClassOf(last.size))'
    ELSE (last.ret # NULL => InPool(Cur, last.ret))'

C21_SlabServesUpToSlabMax ==
    [][(InService /\ status' = "run" /\ last'.op = "alloc") => ServedAsClaimed]_vars

C21_Witness ==
    /\ status = "run"
    /\ last.op = "alloc"
    /\ last.prev = "alloc"
    /\ last.size = LIMDY_SLAB_MAX_SIZE + 1
    /\ InPool(Cur, last.ret)
    /\ ObjectOfClass(last.prevret, ClassOf(LIMDY_SLAB_MAX_SIZE))

\* C22: in a pool whose arena is a single free block (total_size T, nothing
\* allocated), limdy_memory_pool_alloc_from(pool, T - sizeof(header))
\* succeeds, and limdy_memory_pool_alloc_from(pool, T - sizeof(header) + 1)
\* returns NULL with AllocFailed logged and the pool unchanged.
SingleFreeBlock(pool) ==
    /\ pool \in DOMAIN pools
    /\ pools[pool].used_size = 0
    /\ Blocks(pool) = <<pools[pool].memory>>
    /\ Fld(Cur, pools[pool].memory, OFF_IN_USE) = 0
    /\ Fld(Cur, pools[pool].memory, OFF_SIZE) = pools[pool].total_size - HEADER_SIZE

WholePoolServed ==
    IF last'.size = pools[last'.pool].total_size - HEADER_SIZE
    THEN last'.ret = Data(pools[last'.pool].memory)
    ELSE /\ last'.ret = NULL
         /\ "ALLOC_FAILED" \in log'
         /\ UNCHANGED <<mem, pools>>

C22_WholePoolAllocation ==
    [][(/\ InService
        /\ last'.op = "alloc_from"
        /\ SingleFreeBlock(last'.pool)
        /\ last'.size \in {pools[last'.pool].total_size - HEADER_SIZE,
                           pools[last'.pool].total_size - HEADER_SIZE + 1})
          => status' = "run" /\ WholePoolServed]_vars

\* C23: limdy_memory_pool_create succeeds while num_small_pools is below
\* max_pools (if the system has the memory) and, once num_small_pools equals
\* max_pools, fails with PoolFull and leaves small_pools, num_small_pools and
\* the index unchanged; limdy_memory_pool_cleanup called after such a failure
\* tears down every pool that was created.
SystemHasRoom(size) == heap.structs < MaxPoolStructs /\ CanAlloc(Cur, size)
TornDown ==
    /\ status = "run"
    /\ heap.chunks = {}
    /\ DOMAIN pools = {}
    /\ num_small_pools = 0
    /\ large_pool = NULL

CreateAsClaimed ==
    IF num_small_pools >= global_config.max_pools
    THEN /\ status' = "run"
         /\ last'.ret # 0
         /\ "POOL_FULL" \in log'
         /\ UNCHANGED <<small_pools, num_small_pools, tree>>
    ELSE SystemHasRoom(last'.size)
            => /\ status' = "run"
               /\ last'.ret = 0
               /\ num_small_pools' = num_small_pools + 1
               /\ small_pools'[num_small_pools] \in DOMAIN pools' \ DOMAIN pools

C23_CreateUpToMaxPools ==
    [][/\ (InService /\ last'.op = "create") => CreateAsClaimed
       /\ (last.op = "create" /\ "POOL_FULL" \in log /\ last'.op = "cleanup")
              => TornDown']_vars

\* C24: after limdy_memory_pool_cleanup, called after a successful init,
\* after a failed init, with or without outstanding allocations, every
\* pool arena, every pool struct and every slab obtained from the system
\* has been released (exactly once: the call has not freed anything twice
\* or touched freed memory), num_small_pools is 0 and large_pool is NULL.
C24_CleanupReleasesEverything == last.op = "cleanup" => TornDown

\* C25: if a step of limdy_memory_pool_init fails, init returns an error and
\* every pool created before the failure has been released: limdy_memory_pool_init
\* has returned, no pool arena remains allocated and num_small_pools is 0.
C25_FailedInitReleasesPools ==
    (last.op = "init" /\ (last.ret # 0 \/ status # "run"))
        => /\ status = "run"
           /\ heap.chunks = {}
           /\ DOMAIN pools = {}
           /\ num_small_pools = 0

\* C26: limdy_memory_pool_free(p) for a non-NULL p that was handed out by
\* neither the slab allocator nor a live pool, and
\* limdy_memory_pool_free_to(pool, p) for a p outside pool's arena, log
\* InvalidFree and return with every pool's block list and used_size, every
\* slab free list and the pool index unchanged.
Foreign(ptr) == ptr # NULL /\ ~InPool(Cur, ptr) /\ ~InChunk(Cur, ptr)
Outside(pool, ptr) ==
    pool \in DOMAIN pools /\ ptr # NULL /\ ~limdy_memory_pool_contains(Cur, pool, ptr)

C26_InvalidFreeChangesNothing ==
    [][(/\ InService
        /\ \/ last'.op = "free" /\ Foreign(last'.ptr)
           \/ last'.op = "free_to" /\ Outside(last'.pool, last'.ptr))
          => /\ status' = "run"
             /\ "INVALID_FREE" \in log'
             /\ UNCHANGED <<mem, pools, slab_allocator, tree, heap>>]_vars

\* C27: after limdy_memory_pool_destroy(P) for a live small pool P,
\* small_pools[0 .. num_small_pools) holds exactly the other live small
\* pools, each once, num_small_pools is one lower than before, and the
\* arena, block list and used_size of every other pool are unchanged.
ArenaWords(q) ==
    {a \in DOMAIN mem : pools[q].memory <= a /\ a < pools[q].memory + pools[q].total_size}

DestroyAsClaimed ==
    /\ status' = "run"
    /\ num_small_pools' = num_small_pools - 1
    /\ Handles' = Handles \ {last'.pool}
    /\ Cardinality(Handles') = num_small_pools'
    /\ \A q \in DOMAIN pools \ {last'.pool} :
           /\ q \in DOMAIN pools'
           /\ pools'[q] = pools[q]
           /\ \A a \in ArenaWords(q) : a \in DOMAIN mem' /\ mem'[a] = mem[a]

C27_DestroyCompactsSmallPools ==
    [][(InService /\ last'.op = "destroy" /\ last'.pool \in Handles
                  /\ Cardinality(Handles) = num_small_pools)
          => DestroyAsClaimed]_vars

\* C28: limdy_memory_pool_free(NULL) returns without acquiring any mutex and
\* leaves all pool, slab and index state unchanged, in every state of the
\* allocator.
C28_FreeNullIsNoOp ==
    [][(last'.op = "free" /\ last'.ptr = NULL)
          => /\ status' = "run"
             /\ audit'.acq = {}
             /\ log' = {}
             /\ UNCHANGED <<mem, pools, small_pools, num_small_pools, large_pool,
                            slab_allocator, tree, heap, held>>]_vars

C28_Witness ==
    /\ last.op = "free"
    /\ last.ptr = NULL
    /\ \E a \in DOMAIN tree.n : tree.n[a].pool \notin DOMAIN pools
    /\ live # {}

\* C29: translator_create(NULL) returns NULL and translator_aligner_process
\* with a NULL text returns ERROR_NULL_POINTER, and in both cases the error
\* handler is handed exactly one record, whose code is ERROR_NULL_POINTER.
C29_NullArgumentsReportNullPointer ==
    /\ (last.op = "translator_create" /\ last.ptr = NULL)
           => (status = "run" /\ last.ret = NULL /\ log = {"NULL_POINTER"})
    /\ (last.op = "process" /\ last.ptr = NULL)
           => (status = "run" /\ last.ret = ERROR_NULL_POINTER /\ log = {"NULL_POINTER"})

\* the state in which clients construct their objects: limdy_memory_pool_init
\* has succeeded and no pool has been created or destroyed since
AsInitLeftIt ==
    /\ InService
    /\ num_small_pools = global_config.max_pools
    /\ \A i \in PoolIdx : i < num_small_pools => small_pools[i] \in DOMAIN pools

\* what translator_create(service) has to leave behind
TranslatorCreated ==
    /\ status' = "run"
    /\ last'.ret # NULL
    /\ last'.ret \in DOMAIN mem'
    /\ mem'[last'.ret] = last'.ptr
    /\ last'.ret + OFF_TRANSLATOR_POOL \in DOMAIN mem'
    /\ mem'[last'.ret + OFF_TRANSLATOR_POOL] \in DOMAIN pools' \ DOMAIN pools

\* C30: in the state in which clients construct their objects,
\* translator_create(service) with a non-NULL service returns a non-NULL
\* translator whose service field is that service and whose pool field is a
\* pool that limdy_memory_pool_create has just made.
C30_TranslatorCreateSucceeds ==
    [][(AsInitLeftIt /\ last'.op = "translator_create" /\ last'.ptr # NULL)
          => TranslatorCreated]_vars

\* ------------------------------------------------------------------------
\* Properties of the block lists (Spec)
\* ------------------------------------------------------------------------
\* payload sizes of the blocks of a pool, in list order
Payloads(pool) == [i \in DOMAIN Blocks(pool) |-> Fld(Cur, Blocks(pool)[i], OFF_SIZE)]

\* C31: when alloc_from has served a request of positive size, the pool it
\* served it from has no block of zero payload: a free block is split only
\* if the remainder keeps a payload of at least the minimum (one byte or
\* more) after its header, and is consumed whole otherwise.
C31_NoZeroPayloadBlock ==
    (status = "run" /\ last.op = "alloc_from" /\ last.size > 0 /\ last.ret # NULL
        /\ last.pool \in DOMAIN pools)
        => \A i \in DOMAIN Payloads(last.pool) : Payloads(last.pool)[i] >= 1

\* the blocks reachable from the head of the pool tile its arena
Tiles(pool) ==
    /\ Blocks(pool) # <<>>
    /\ Blocks(pool)[1] = pools[pool].memory
    /\ Fld(Cur, Blocks(pool)[1], OFF_PREV) = NULL
    /\ Fld(Cur, Blocks(pool)[Len(Blocks(pool))], OFF_NEXT) = NULL
    /\ \A i \in DOMAIN Blocks(pool) :
          /\ Fld(Cur, Blocks(pool)[i], OFF_MAGIC) = MEMORY_BLOCK_MAGIC
          /\ i < Len(Blocks(pool)) =>
                /\ Blocks(pool)[i + 1] = Data(Blocks(pool)[i]) + Payloads(pool)[i]
                /\ Fld(Cur, Blocks(pool)[i + 1], OFF_PREV) = Blocks(pool)[i]
    /\ SumSeq([i \in DOMAIN Blocks(pool) |-> HEADER_SIZE + Payloads(pool)[i]])
          = pools[pool].total_size

\* C32: while the process runs, the blocks reachable from the head of every
\* pool tile its arena: the first header is at offset 0, each successor
\* header starts where the payload before it ends, prev and next are
\* mutually inverse, every header has the magic value, and header plus
\* payload sizes add up to total_size.
C32_BlocksTileArena ==
    status = "run" => \A pool \in DOMAIN pools : Tiles(pool)

\* the blocks of the pool that are free and hold size bytes, before the call
FreeFits(pool, size) ==
    {Blocks(pool)[i] : i \in {j \in DOMAIN Blocks(pool) :
        Fld(Cur, Blocks(pool)[j], OFF_IN_USE) = 0 /\ Payloads(pool)[j] >= size}}

\* what alloc_from(pool, n) returns, given the free blocks found before it
FirstFitServed ==
    IF last'.ret = NULL
    THEN FreeFits(last'.pool, ALIGN_SIZE(last'.size, LIMDY_MEMORY_ALIGNMENT)) = {}
    ELSE /\ BlockOf(last'.ret)
               \in FreeFits(last'.pool, ALIGN_SIZE(last'.size, LIMDY_MEMORY_ALIGNMENT))
         /\ \A b \in FreeFits(last'.pool, ALIGN_SIZE(last'.size, LIMDY_MEMORY_ALIGNMENT)) :
               BlockOf(last'.ret) <= b

\* C33: an alloc_from(pool, n) that returns a pointer returns the payload of
\* the lowest-addressed free block of the pool whose payload holds n
\* aligned up, and it returns NULL only when the pool has no such block.
C33_FirstFitLowestAddress ==
    [][(status' = "run" /\ last'.op = "alloc_from" /\ last'.pool \in DOMAIN pools)
          => FirstFitServed]_vars

\* C33 witness: alloc_from has passed over a free block that is too small
\* and served the request from a later one.
C33_Witness ==
    /\ status = "run"
    /\ last.op = "alloc_from"
    /\ last.ret # NULL
    /\ last.pool \in DOMAIN pools
    /\ \E i \in DOMAIN Blocks(last.pool) :
          /\ Blocks(last.pool)[i] < BlockOf(last.ret)
          /\ Fld(Cur, Blocks(last.pool)[i], OFF_IN_USE) = 0
          /\ Payloads(last.pool)[i] < ALIGN_SIZE(last.size, LIMDY_MEMORY_ALIGNMENT)

\* ------------------------------------------------------------------------
\* Specification SpecOverrun: the pool-level entry points, called by a
\* client that may write one word past the end of an allocation it holds.
\* The word behind a payload is the magic field of the header that follows.
\* ------------------------------------------------------------------------
\* the client stores a zero behind the payload of ptr
overrun(A, ptr) == MemWrite(A, <<Fld(A, BlockOf(ptr), OFF_NEXT) + OFF_MAGIC, 0>>)

Overrun(p) ==
    /\ Ready
    /\ InPool(Cur, p)
    /\ HdrOK(Cur, BlockOf(p))
    /\ Fld(Cur, BlockOf(p), OFF_NEXT) # NULL
    /\ Did(overrun(Cur, p), Called("overrun", NULL, p, 0))

NextOverrun ==
    \/ \E pool \in Handles, n \in FromSizes : AllocFrom(pool, n)
    \/ \E pool \in Handles, p \in live : FreeTo(pool, p)
    \/ \E pool \in Handles, p \in live, n \in ReallocSizes : ReallocFrom(pool, p, n)
    \/ \E pool \in Handles : Defragment(pool)
    \/ \E p \in live : Overrun(p)

SpecOverrun == Init /\ [][NextOverrun]_vars

\* a header whose magic field does not hold the magic value
BadMagic(b) == HdrOK(Cur, b) /\ Fld(Cur, b, OFF_MAGIC) # MEMORY_BLOCK_MAGIC

\* the free successor of the in-use block of ptr, which free_to merges and
\* a growing realloc_from absorbs; NULL if there is none
FreeSuccessor(ptr) ==
    IF ~HdrOK(Cur, BlockOf(ptr)) \/ BadMagic(BlockOf(ptr)) THEN NULL
    ELSE IF Fld(Cur, BlockOf(ptr), OFF_IN_USE) = 0 THEN NULL
    ELSE IF Fld(Cur, BlockOf(ptr), OFF_NEXT) = NULL THEN NULL
    ELSE IF ~HdrOK(Cur, Fld(Cur, BlockOf(ptr), OFF_NEXT)) THEN NULL
    ELSE IF Fld(Cur, Fld(Cur, BlockOf(ptr), OFF_NEXT), OFF_IN_USE) # 0 THEN NULL
    ELSE Fld(Cur, BlockOf(ptr), OFF_NEXT)

\* the call recorded in last' works on a header whose magic is wrong
MeetsBadMagic ==
    \/ /\ last'.op = "free_to"
       /\ limdy_memory_pool_contains(Cur, last'.pool, last'.ptr)
       /\ FreeSuccessor(last'.ptr) # NULL
       /\ BadMagic(FreeSuccessor(last'.ptr))
    \/ /\ last'.op = "realloc_from"
       /\ limdy_memory_pool_contains(Cur, last'.pool, last'.ptr)
       /\ FreeSuccessor(last'.ptr) # NULL
       /\ BadMagic(FreeSuccessor(last'.ptr))
       /\ ALIGN_SIZE(last'.size, LIMDY_MEMORY_ALIGNMENT) > Fld(Cur, BlockOf(last'.ptr), OFF_SIZE)
       /\ Fld(Cur, BlockOf(last'.ptr), OFF_SIZE) + HEADER_SIZE
              + Fld(Cur, FreeSuccessor(last'.ptr), OFF_SIZE)
              >= ALIGN_SIZE(last'.size, LIMDY_MEMORY_ALIGNMENT)
    \/ /\ last'.op = "defragment"
       /\ \E i \in DOMAIN Blocks(last'.pool) : BadMagic(Blocks(last'.pool)[i])

\* C34: when free_to merges, realloc_from absorbs or defragment visits a
\* block whose header does not carry the magic value, the process ends with
\* the corruption report and no header and no used_size has been changed.
C34_BadMagicStopsBeforeAnyChange ==
    [][(status = "run" /\ last'.pool \in DOMAIN pools /\ MeetsBadMagic)
          => (status' = "exit" /\ "CORRUPTION" \in log' /\ mem' = mem /\ pools' = pools)]_vars

\* ------------------------------------------------------------------------
\* Specification SpecDefrag: limdy_memory_pool_defragment applied to pools
\* whose arena is tiled by up to MaxBlocks blocks, each free or in use, in
\* every combination - among them lists with runs of adjacent free blocks,
\* which are what the sweep is there for.
\* ------------------------------------------------------------------------
MaxBlocks == 4
\* payload sizes of the blocks before the last one
TilePayloads == {LIMDY_MEMORY_ALIGNMENT, 2 * LIMDY_MEMORY_ALIGNMENT}
\* the pool whose arena is tiled: the second small pool, empty after init
TiledPool == Booted.small_pools[1]

\* the headers of blocks of payload sizes[i], in use iff flags[i], laid out
\* from address b on
RECURSIVE LayOut(_, _, _, _, _)
LayOut(A, b, prev, sizes, flags) ==
    IF sizes = <<>> THEN A
    ELSE LayOut(MemStore(A, NewHeader(b, Head(sizes),
                                      IF Len(sizes) = 1 THEN NULL ELSE Data(b) + Head(sizes),
                                      prev)
                            \o <<<<b + OFF_IN_USE, IF Head(flags) THEN 1 ELSE 0>>>>),
                Data(b) + Head(sizes), b, Tail(sizes), Tail(flags))

\* the payload left for the last block
LastPayload(sizes) ==
    Booted.pools[TiledPool].total_size - HEADER_SIZE
        - SumSeq([i \in DOMAIN sizes |-> HEADER_SIZE + sizes[i]])

Tiled(sizes, flags) ==
    [LayOut(Booted, Booted.pools[TiledPool].memory, NULL, sizes, flags) EXCEPT
        !.pools[TiledPool].used_size =
            SumSeq([i \in DOMAIN sizes |-> IF flags[i] THEN HEADER_SIZE + sizes[i] ELSE 0])]

InitDefrag ==
    \E k \in 1..MaxBlocks :
        \E sizes \in [1..(k - 1) -> TilePayloads], flags \in [1..k -> BOOLEAN] :
            InitFrom(Tiled(Append(sizes, LastPayload(sizes)), flags))

NextDefrag == Defragment(TiledPool)

SpecDefrag == InitDefrag /\ [][NextDefrag]_vars

\* address and payload size of the blocks bl that are in use
InUseOf(A, bl) ==
    {<<bl[i], Fld(A, bl[i], OFF_SIZE)>> :
        i \in {j \in DOMAIN bl : Fld(A, bl[j], OFF_IN_USE) # 0}}
InUseBlocks(pool) == InUseOf(Cur, Blocks(pool))

\* header plus payload sizes of the blocks bl
CoverOf(A, bl) == SumSeq([i \in DOMAIN bl |-> HEADER_SIZE + Fld(A, bl[i], OFF_SIZE)])
Coverage(pool) == CoverOf(Cur, Blocks(pool))

\* what a defragment(pool) that returned has done
Defragmented(pool) ==
    /\ NoAdjacentFree(pool)'
    /\ pools'[pool].used_size = pools[pool].used_size
    /\ Coverage(pool)' = Coverage(pool)
    /\ InUseBlocks(pool)' = InUseBlocks(pool)
    /\ NoAdjacentFree(pool) => (mem' = mem /\ pools' = pools)
    /\ (limdy_memory_pool_defragment(Cur, pool).mem)' = mem'
    /\ (limdy_memory_pool_defragment(Cur, pool).pools)' = pools'

\* C35: a defragment(pool) that returns leaves no two adjacent free blocks in
\* the pool and changes neither used_size nor the bytes the blocks cover nor
\* address, payload size and in_use flag of a block in use; a second
\* defragment changes nothing more, and on a pool without adjacent free
\* blocks the first changes nothing either.
C35_DefragmentCoalescesOnly ==
    [][\A pool \in DOMAIN pools :
          (status' = "run" /\ last'.op = "defragment" /\ last'.pool = pool)
              => Defragmented(pool)]_vars

\* C35 witness: defragment has merged a run of three free blocks that lay
\* between blocks in use into one.
C35_Witness ==
    /\ status = "run"
    /\ last.op = "defragment"
    /\ last.pool = TiledPool
    /\ Len(Blocks(TiledPool)) = 2
    /\ Fld(Cur, Blocks(TiledPool)[1], OFF_IN_USE) # 0
    /\ Fld(Cur, Blocks(TiledPool)[2], OFF_IN_USE) = 0
    /\ Cardinality(StaleOrLinked(TiledPool)) = MaxBlocks - 1

\* ------------------------------------------------------------------------
\* Properties of the slab allocator (Spec)
\* ------------------------------------------------------------------------
\* the free list of a slab class as slab_alloc follows it, from a on
RECURSIVE SlabList(_, _)
SlabList(a, fuel) ==
    IF a = NULL \/ fuel = 0 \/ a \notin DOMAIN mem THEN <<>>
    ELSE <<a>> \o SlabList(mem[a], fuel - 1)

FreeList(i) == SlabList(slab_allocator.slabs[i], WalkFuel)

\* free_objects[i] counts the objects of the list, and the list ends
SlabCounted(i) ==
    /\ slab_allocator.free_objects[i] = Len(FreeList(i))
    /\ IF FreeList(i) = <<>> THEN slab_allocator.slabs[i] = NULL
       ELSE mem[FreeList(i)[Len(FreeList(i))]] = NULL

\* the stride of class i
Stride(i) == LIMDY_SLAB_MIN_SIZE * 2 ^ i

\* an alloc that found class i without free objects got a new slab of
\* slab_objects_per_slab objects; the first is handed out, the others are
\* the free list
Refilled(i) ==
    /\ \E c \in heap'.chunks \ heap.chunks :
          /\ c.base = last'.ret
          /\ c.size = global_config.slab_objects_per_slab * Stride(i)
    /\ slab_allocator'.free_objects[i] = global_config.slab_objects_per_slab - 1
    /\ FreeList(i)' = [k \in 1 .. global_config.slab_objects_per_slab - 1 |->
                          last'.ret + k * Stride(i)]

\* C36: while the process runs, free_objects[i] is the number of objects on
\* the free list of class i, for every class; and an alloc that finds the
\* count of its class 0 chains in a slab of exactly slab_objects_per_slab
\* objects of stride LIMDY_SLAB_MIN_SIZE << i and leaves the count at
\* slab_objects_per_slab - 1.
C36_SlabCountsFreeList ==
    [][status' = "run" =>
          /\ \A i \in SlabIdx : SlabCounted(i)'
          /\ \A i \in SlabIdx :
                (/\ last'.op = "alloc"
                 /\ ALIGN_SIZE(last'.size, LIMDY_MEMORY_ALIGNMENT) <= LIMDY_SLAB_MAX_SIZE
                 /\ i = ClassOf(last'.size)
                 /\ slab_allocator.free_objects[i] = 0
                 /\ last'.ret # NULL)
                => Refilled(i)]_vars

\* ------------------------------------------------------------------------
\* Live allocations (Spec)
\* ------------------------------------------------------------------------
\* the bytes the allocator has set aside for the live pointer p: the payload
\* of its block, or the slab object it is
Extent(p) ==
    IF InPool(Cur, p)
    THEN IF HdrOK(Cur, BlockOf(p)) THEN Fld(Cur, BlockOf(p), OFF_SIZE) ELSE 0
    ELSE IF \E c \in heap.chunks : c.base <= p /\ p < c.base + c.size
    THEN (CHOOSE c \in heap.chunks : c.base <= p /\ p < c.base + c.size).size
             \div global_config.slab_objects_per_slab
    ELSE 0

Overlap(a, m, b, n) == a < b + n /\ b < a + m

\* the headers reachable from the heads of the pools
ReachableHeaders ==
    UNION {{Blocks(pool)[i] : i \in DOMAIN Blocks(pool)} : pool \in DOMAIN pools}

PayloadsDisjoint ==
    /\ \A p \in live, q \in live :
          p # q => ~Overlap(p, Extent(p), q, Extent(q))
    /\ \A p \in live, b \in ReachableHeaders :
          ~Overlap(p, Extent(p), b, HEADER_SIZE)

\* limdy_memory_pool_alloc(size) takes its block from memory the allocator
\* owns: it reads no pool, index node or block header that was released
ServedFromOwned(size) == limdy_memory_pool_alloc(Cur, size).status # "wild"

\* C37: at all times the payloads of two distinct live allocations share
\* no byte and no live payload shares a byte with a block header reachable
\* from the head of a pool; in particular an alloc never hands out memory of
\* a pool that was given back to the system.
C37_LivePayloadsDisjoint ==
    [][/\ status' = "run" => PayloadsDisjoint'
       /\ \A size \in AllocSizes :
              (status = "run" /\ last'.op = "alloc" /\ last'.size = size)
                  => ServedFromOwned(size)]_vars


\* ------------------------------------------------------------------------
\* Order of release (SpecLife)
\* ------------------------------------------------------------------------
\* every node of the index lies in memory that has not been given back
NodesLive(A) == \A z \in DOMAIN A.tree.n : InChunk(A, z)

\* limdy_memory_pool_cleanup:156-176 is done and limdy_rbtree_destroy (:178)
\* is about to run
BeforeIndexDestroy == cleanup_large(cleanup_small(Cur, 0))

\* C38: limdy_memory_pool_cleanup and limdy_memory_pool_destroy, called on an
\* allocator that limdy_memory_pool_init set up, touch no pool buffer, index
\* node, block header or mutex that was already released: when cleanup comes
\* to destroy the index its nodes are still in live memory, and neither call
\* makes a wild access.
C38_NothingTouchedAfterRelease ==
    [][/\ (status = "run" /\ InService /\ last'.op = "cleanup")
              => /\ NodesLive(BeforeIndexDestroy)
                 /\ limdy_memory_pool_cleanup(Cur).status # "wild"
       /\ \A pool \in Handles :
              (status = "run" /\ InService /\ last'.op = "destroy" /\ last'.pool = pool)
                  => limdy_memory_pool_destroy(Cur, pool).status # "wild"]_vars


\* ------------------------------------------------------------------------
\* Specification SpecWide: limdy_memory_pool_init with max_pools at and above
\* LIMDY_MAX_POOLS, then limdy_memory_pool_create and
\* limdy_memory_pool_destroy in any order.  The small pools are too small
\* for an index node, the large pool holds them all.
\* ------------------------------------------------------------------------
WideSmallPoolSize == HEADER_SIZE + LIMDY_MEMORY_ALIGNMENT
WideLargePoolSize ==
    HEADER_SIZE + (LIMDY_MAX_POOLS + 1) * (HEADER_SIZE + ALIGN_SIZE(RBNODE_SIZE, LIMDY_MEMORY_ALIGNMENT))
WideMaxPools == {LIMDY_MAX_POOLS - 1, LIMDY_MAX_POOLS, LIMDY_MAX_POOLS + 1}
WideConfig(max_pools) ==
    [small_pool_size |-> WideSmallPoolSize, large_pool_size |-> WideLargePoolSize,
     max_pools |-> max_pools, slab_objects_per_slab |-> CfgSlabObjects]

InitWide == InitFrom(Zeroed)

WideInit(max_pools) ==
    /\ Ready
    /\ ~InitCalled
    /\ Did(limdy_memory_pool_init(Cur, WideConfig(max_pools)),
           [Called("init", NULL, NULL, max_pools) EXCEPT
               !.ret = Failed(limdy_memory_pool_init(Cur, WideConfig(max_pools)))])

WideCreateSizes == {WideSmallPoolSize, CfgSmallPoolSize}

WideCreate(size) ==
    /\ InService
    /\ Create(size)

WideDestroy(pool) ==
    /\ InService
    /\ Destroy(pool)

NextWide ==
    \/ \E max_pools \in WideMaxPools : WideInit(max_pools)
    \/ \E size \in WideCreateSizes : WideCreate(size)
    \/ \E pool \in Handles : WideDestroy(pool)

SpecWide == InitWide /\ [][NextWide]_vars

\* limdy_memory_pool_create(size) gets past the POOL_FULL test and obtains a
\* pool, so that it executes small_pools[num_small_pools] = *new_pool (:658)
CreateWritesSlot(size) ==
    /\ num_small_pools < global_config.max_pools
    /\ create_pool(MUTEX_LOCK(Cur, GLOBAL_MUTEX), size).err = "SUCCESS"

\* C39: whatever max_pools is, num_small_pools never exceeds LIMDY_MAX_POOLS
\* and limdy_memory_pool_init and limdy_memory_pool_create write small_pools[]
\* only at indices below LIMDY_MAX_POOLS.
C39_SmallPoolsStaysInBounds ==
    [][/\ num_small_pools' <= LIMDY_MAX_POOLS
       /\ \A size \in WideCreateSizes :
              (status = "run" /\ last'.op = "create" /\ last'.size = size
                              /\ CreateWritesSlot(size))
                  => num_small_pools < LIMDY_MAX_POOLS]_vars


\* ------------------------------------------------------------------------
\* A realloc that can neither grow in place nor move (Spec)
\* ------------------------------------------------------------------------
\* the pool whose arena holds p
HomeOf(p) == CHOOSE pool \in DOMAIN pools : limdy_memory_pool_contains(Cur, pool, p)

\* p is the payload of a block in use with an intact header
IsAllocated(p) ==
    /\ InPool(Cur, p)
    /\ HdrOK(Cur, BlockOf(p))
    /\ Fld(Cur, BlockOf(p), OFF_MAGIC) = MEMORY_BLOCK_MAGIC
    /\ Fld(Cur, BlockOf(p), OFF_IN_USE) # 0

\* the test of realloc_from_pool:763-764 (limdy_memory_pool_realloc:429-430)
\* for the aligned size fails
CannotGrow(p, size) ==
    LET block == BlockOf(p)
        next == Fld(Cur, block, OFF_NEXT)
    IN  ~ /\ size > Fld(Cur, block, OFF_SIZE)
          /\ next # NULL
          /\ HdrOK(Cur, next)
          /\ Fld(Cur, next, OFF_IN_USE) = 0
          /\ Fld(Cur, block, OFF_SIZE) + HEADER_SIZE + Fld(Cur, next, OFF_SIZE) >= size

\* limdy_memory_pool_alloc(size), called now, finds no block
NoFreshBlock(size) ==
    /\ limdy_memory_pool_alloc(Cur, size).status = "run"
    /\ limdy_memory_pool_alloc(Cur, size).ret = NULL

\* the call returned NULL and left p, its pool and the mutexes as they were
ReallocGaveUp(p) ==
    /\ status' = "run"
    /\ last'.ret = NULL
    /\ p \in live'
    /\ \A a \in ArenaWords(HomeOf(p)) : a \in DOMAIN mem' /\ mem'[a] = mem[a]
    /\ pools'[HomeOf(p)] = pools[HomeOf(p)]
    /\ held' = {}

\* C40: when limdy_memory_pool_realloc or limdy_memory_pool_realloc_from of
\* a live pool allocation p can neither grow p in place nor obtain a fresh
\* block, it returns NULL, p stays live with its payload size and contents,
\* the block list and used_size of its pool are unchanged and the pool mutex
\* is released.
C40_FailedReallocKeepsBlock ==
    [][\A p \in live, size \in ReallocSizes :
          (/\ status = "run"
           /\ last'.op \in {"realloc", "realloc_from"}
           /\ last'.ptr = p
           /\ last'.size = size
           /\ IsAllocated(p)
           /\ last'.op = "realloc_from" => last'.pool = HomeOf(p)
           /\ CannotGrow(p, ALIGN_SIZE(size, LIMDY_MEMORY_ALIGNMENT))
           /\ NoFreshBlock(size))
              => ReallocGaveUp(p)]_vars

============================================================================
